---- MODULE Spec2Model ----
(***************************************************************************)
(* Ownership and threading substrate of the ballistica engine core:        *)
(*   - PythonRef, the managed reference to a scripting-runtime object      *)
(*     (shared/python/python_ref.h),                                       *)
(*   - Object::WeakRef as held by the script-side Widget handle            *)
(*     (ui_v1/python/class/python_class_widget.cc),                        *)
(*   - the logic thread's event loop, babase.pushcall and the ambient      *)
(*     context (base/base.cc, base/python/methods/python_methods_app.cc).  *)
(* Each part has its own specification over the one set of variables.      *)
(***************************************************************************)
EXTENDS Integers, Sequences, FiniteSets, TLC

\* ---------------------------------------------------------------- bounds

\* Raw references a native caller may hold on one PyObject at a time.
MaxOwned == 2

\* ------------------------------------------------------------- PythonRef

\* The null PyObject pointer.
nullptr == 0

\* The scripting-runtime objects of the model.
PyObjs == {1, 2}

\* The PythonRef wrapper instances (storage slots) of the model.
Refs == {"a", "b"}

\* What a native caller can pass as a PyObject*.
PyPtrs == PyObjs \cup {nullptr}

VARIABLES
  ob_refcnt,    \* PyObject::ob_refcnt of each object; 0 = deallocated
  owned,        \* raw references native code owns outside any PythonRef
  obj_,         \* PythonRef::obj_ of each wrapper
  constructed,  \* whether the wrapper instance currently exists
  last          \* the operation that ran last: what, on which, with what

VARIABLES
  called_start_app_,  \* BaseFeatureSet::called_start_app_
  app_running_,       \* BaseFeatureSet::app_running_
  app_mode_,          \* BaseFeatureSet::app_mode_: the active app mode
  event_loop_,        \* whether the logic thread's EventLoop exists
  queue,              \* the logic EventLoop's queue of runnables, oldest first
  executing,          \* per thread, the runnable of the logic loop it is running
  context_ref,        \* BaseFeatureSet::context_ref: the ambient context
  ssc,                \* the ScopedSetContext instances alive on the logic thread
  unwinding,          \* an exception is propagating out of the running call
  pushed,             \* per thread, how many calls it has pushed
  begun,              \* per thread, how many of its calls have begun to run
  finished            \* per thread, how many of its calls have returned

VARIABLES
  live,         \* per widget slot, whether a Widget object exists there
  incarnation,  \* per widget slot, how many Widgets have been made there
  py_widget,    \* whether each PythonClassWidget instance exists
  widget_,      \* PythonClassWidget::widget_: the Object::WeakRef<Widget>
  get_          \* per thread, the method of a PythonClassWidget it is in

VARIABLES
  timers,        \* the timers of the logic thread, in order of creation
  app_time,      \* the app-time, in milliseconds
  display_time   \* the display-time, in milliseconds

VARIABLES
  hook_pc,       \* per feature-set, how far its OnModuleExec has come
  importing,     \* the feature-sets whose OnModuleExec is running, innermost
                 \* last
  done           \* per feature-set, the steps its OnModuleExec has taken

VARIABLES
  gil,           \* the thread that holds the lock of the script runtime
  queue_lock,    \* the thread that holds the lock of the logic loop's queue
  at             \* per thread, where it stands between the two locks

VARIABLES
  plus_installed,        \* whether _baplus can be imported: yes, no, unknown
  tried_importing_plus_, \* BaseFeatureSet::tried_importing_plus_
  g_plus_soft,           \* the plus interface, or nullptr
  plus_at                \* per thread, the call about plus it is in

VARIABLES
  start_pc,      \* how far StartApp has come on the main thread; 0: not in it
  started,       \* the subsystems whose OnMainThreadStartApp has returned
  called_run_app_to_completion_,  \* BaseFeatureSet::called_run_app_to_...
  logic_shutdown \* Logic::Shutdown has run on the logic thread

VARIABLES
  console_,      \* BaseFeatureSet::console_ is set
  console_startup_messages_,  \* the messages kept for the console
  printed,       \* the messages printed on the console, in order
  print_at,      \* per thread, the message it is about to keep, or 0
  ready_pc,      \* how far OnScreenAndAssetsReady has come; 0: not in it
  submitted      \* the messages given to PushConsolePrintCall, in order

VARIABLES session_count, sessions, foreground_session_, scene_v1_active

VARIABLES enum_pc, enum_T, enum_obj, enum_result

VARIABLES commit_pc, files, final_str, before, ostype_windows, commits

refVars == <<ob_refcnt, owned, obj_, constructed, last>>

loopVars == <<called_start_app_, app_running_, app_mode_, event_loop_, queue,
              executing,
              context_ref, ssc, unwinding, pushed, begun, finished>>

weakVars == <<live, incarnation, py_widget, widget_, get_>>

timerVars == <<timers, app_time, display_time>>

importVars == <<hook_pc, importing, done>>

lockVars == <<gil, queue_lock, at>>

plusVars == <<plus_installed, tried_importing_plus_, g_plus_soft, plus_at>>

lifeVars == <<start_pc, started, called_run_app_to_completion_,
              logic_shutdown>>

consoleVars == <<console_, console_startup_messages_, printed, print_at,
                 ready_pc, submitted>>

sessionVars == <<session_count, sessions, foreground_session_,
                 scene_v1_active>>

enumVars == <<enum_pc, enum_T, enum_obj, enum_result>>

commitVars == <<commit_pc, files, final_str, before, ostype_windows, commits>>

nonRefVars == <<loopVars, weakVars, timerVars, importVars, lockVars,
              plusVars,
              lifeVars,
              consoleVars,
              sessionVars,
              enumVars,
              commitVars>>

vars == <<refVars, loopVars, weakVars, timerVars, importVars, lockVars,
              plusVars,
              lifeVars,
              consoleVars,
              sessionVars,
              enumVars,
              commitVars>>

\* The threads of the model: the logic thread, which owns the logic
\* EventLoop, and the main thread, which stands for every other thread.
Threads == {"logic", "main"}

\* The targets a ContextRef can have; nullptr is the empty context.
Contexts == {0, 1, 2}

\* No runnable.
NoCall == [mode |-> "none"]

\* AppModeEmpty::GetSingleton(): the app mode the app starts in.
AppModeEmpty == 0

\* The app modes: AppModeEmpty, and for each context the mode that has it
\* in the foreground.
AppModes == Contexts

\* The addresses a Widget can live at.
Widgets == {1, 2}

\* The PythonClassWidget instances (storage slots) of the model.
PyWidgets == {"x", "y"}

\* No Object::WeakRef allocated.
NoWeakRef == [allocated |-> FALSE, obj |-> nullptr, bound |-> <<>>]

\* Not inside a method.
NoGet == [m |-> "none"]

\* No widgets and no Python widget objects.
WeakInit ==
  /\ live = [w \in Widgets |-> FALSE]
  /\ incarnation = [w \in Widgets |-> 0]
  /\ py_widget = [h \in PyWidgets |-> FALSE]
  /\ widget_ = [h \in PyWidgets |-> NoWeakRef]
  /\ get_ = [t \in Threads |-> NoGet]

\* No timers; both clocks at 0.
TimerInit ==
  /\ timers = <<>>
  /\ app_time = 0
  /\ display_time = 0

\* The feature-sets whose module hooks are under src/.
FeatureSets == {"base", "scene_v1", "ui_v1"}

\* No feature-set's module has been imported.
ImportInit ==
  /\ hook_pc = [fs \in FeatureSets |-> 0]
  /\ importing = <<>>
  /\ done = [fs \in FeatureSets |-> <<>>]

\* No thread holds a lock or is after one.
LockInit ==
  /\ gil = "none"
  /\ queue_lock = "none"
  /\ at = [t \in Threads |-> "idle"]

\* Nothing has asked for the plus feature-set; whether it is installed is
\* a fact of the build, which the first import attempt brings to light.
PlusInit ==
  /\ plus_installed = "unknown"
  /\ tried_importing_plus_ = FALSE
  /\ g_plus_soft = nullptr
  /\ plus_at = [t \in Threads |-> "-"]

\* The subsystems StartApp starts, in the order it starts them.
Subsystems ==
  << "python", "logic", "graphics_server", "bg_dynamics_server",
     "network_writer", "audio_server", "assets_server", "platform", "app",
     "stdio_console" >>

\* No StartApp is under way: the subsystems are started if it has been
\* called, and not otherwise; nothing has asked the app to quit.
LifeInit ==
  /\ start_pc = 0
  /\ started = IF called_start_app_ THEN Subsystems ELSE <<>>
  /\ called_run_app_to_completion_ = FALSE
  /\ logic_shutdown = FALSE

\* No console yet, and no message.
ConsoleInit ==
  /\ console_ = FALSE
  /\ console_startup_messages_ = <<>>
  /\ printed = <<>>
  /\ print_at = [t \in Threads |-> 0]
  /\ ready_pc = 0
  /\ submitted = <<>>

\* No Session yet, and no scene-v1 app mode active.
SessionInit ==
  /\ session_count = 0
  /\ sessions = {}
  /\ foreground_session_ = nullptr
  /\ scene_v1_active = FALSE

\* No call of GetPyEnum / IsPyEnum under way.
EnumInit ==
  /\ enum_pc = "idle"
  /\ enum_T = "-"
  /\ enum_obj = [isinstance |-> 0, value |-> [kind |-> "none", v |-> 0]]
  /\ enum_result = [op |-> "-"]

\* No config written yet: none of the three files exists.
CommitInit ==
  /\ commit_pc = "idle"
  /\ files = [p \in {"path", "path_temp", "path_prev"} |-> 0]
  /\ final_str = 0
  /\ before = files
  /\ ostype_windows = "unknown"
  /\ commits = 0

\* The state before the app is started: no logic EventLoop yet, the ambient
\* context is ContextRef(nullptr).
LoopInit ==
  /\ called_start_app_ = FALSE
  /\ app_running_ = FALSE
  /\ app_mode_ = AppModeEmpty
  /\ event_loop_ = FALSE
  /\ queue = <<>>
  /\ executing = [t \in Threads |-> NoCall]
  /\ context_ref = nullptr
  /\ ssc = <<>>
  /\ unwinding = FALSE
  /\ pushed = [t \in Threads |-> 0]
  /\ begun = [t \in Threads |-> 0]
  /\ finished = [t \in Threads |-> 0]

\* Py_INCREF on the reference-count table rc.
Py_INCREF(rc, p) == [rc EXCEPT ![p] = @ + 1]

\* Py_DECREF on the reference-count table rc (the object is deallocated
\* when its count reaches 0).
Py_DECREF(rc, p) == [rc EXCEPT ![p] = @ - 1]

\* The part of the state a PythonRef method reads and writes.
RefState == [o |-> obj_, rc |-> ob_refcnt, threw |-> FALSE]

Threw(s) == [s EXCEPT !.threw = TRUE]

\* PythonRef::Get
Get(s, r) == s.o[r]

\* PythonRef::Exists
Exists(s, r) == s.o[r] # nullptr

\* A Release that insists on holding a reference, as operator* does.
ReleaseThrowsIfUnset(s, r) ==
  IF s.o[r] # nullptr
    THEN [s EXCEPT !.o[r] = nullptr, !.rc = Py_DECREF(s.rc, s.o[r])]
    ELSE Threw(s)

\* PythonRef::Release: drop the held reference, if one is held.
Release(s, r) ==
  IF s.o[r] # nullptr
    THEN [s EXCEPT !.o[r] = nullptr, !.rc = Py_DECREF(s.rc, s.o[r])]
    ELSE s

\* PythonRef::Acquire: new reference to p; throws on nullptr. The new
\* object is incremented before the old one is decremented.
Acquire(s, r, p) ==
  IF p = nullptr
    THEN Threw(s)
    ELSE LET old == s.o[r]
             rc1 == Py_INCREF(s.rc, p)
         IN  [s EXCEPT !.o[r] = p,
                       !.rc = IF old # nullptr THEN Py_DECREF(rc1, old)
                                               ELSE rc1]

\* PythonRef::AcquireSoft: as Acquire, nullptr clears the wrapper.
AcquireSoft(s, r, p) ==
  IF p = nullptr THEN Release(s, r) ELSE Acquire(s, r, p)

\* PythonRef::Steal: take over the caller's reference; throws on nullptr.
Steal(s, r, p) ==
  IF p = nullptr
    THEN Threw(s)
    ELSE LET old == s.o[r]
         IN  [s EXCEPT !.o[r] = p,
                       !.rc = IF old # nullptr THEN Py_DECREF(s.rc, old)
                                               ELSE s.rc]

\* PythonRef::StealSoft: as Steal, nullptr clears the wrapper.
StealSoft(s, r, p) ==
  IF p = nullptr THEN Release(s, r) ELSE Steal(s, r, p)

\* PythonRef::HandOver: clear the wrapper without decrementing the count;
\* the reference now belongs to the caller.
HandOver(s, r) == [s EXCEPT !.o[r] = nullptr]

\* A copy that takes the other wrapper's pointer without a new reference.
OperatorAssignSteals(s, r, other) ==
  IF Exists(s, other) THEN Steal(s, r, Get(s, other)) ELSE Release(s, r)

\* A copy that leaves the destination alone when other holds nothing.
OperatorAssignKeeps(s, r, other) ==
  IF Exists(s, other) THEN Acquire(s, r, Get(s, other)) ELSE s

\* PythonRef::operator=: acquire what other references, or clear to match.
OperatorAssign(s, r, other) ==
  IF Exists(s, other) THEN Acquire(s, r, Get(s, other)) ELSE Release(s, r)

\* PythonRef::PythonRef(PyObject*, ReferenceBehavior)
Behaviors == {"kSteal", "kStealSoft", "kAcquire", "kAcquireSoft"}

IsSteal(b) == b \in {"kSteal", "kStealSoft"}

WithBehavior(s, r, p, b) ==
  CASE b = "kSteal"       -> Steal(s, r, p)
    [] b = "kStealSoft"   -> StealSoft(s, r, p)
    [] b = "kAcquire"     -> Acquire(s, r, p)
    [] b = "kAcquireSoft" -> AcquireSoft(s, r, p)

\* A Stolen() that tolerates nullptr, as StolenSoft() does.
StolenTolerant(s, r, p) == WithBehavior(s, r, p, "kStealSoft")

\* PythonRef::Stolen / StolenSoft / Acquired / AcquiredSoft: the shortcuts
\* that construct with one ReferenceBehavior each.
Stolen(s, r, p) == WithBehavior(s, r, p, "kSteal")

StolenSoft(s, r, p) == WithBehavior(s, r, p, "kStealSoft")

Acquired(s, r, p) == WithBehavior(s, r, p, "kAcquire")

AcquiredSoft(s, r, p) == WithBehavior(s, r, p, "kAcquireSoft")

Shortcut(s, r, p, b) ==
  CASE b = "kSteal"       -> Stolen(s, r, p)
    [] b = "kStealSoft"   -> StolenSoft(s, r, p)
    [] b = "kAcquire"     -> Acquired(s, r, p)
    [] b = "kAcquireSoft" -> AcquiredSoft(s, r, p)

\* The caller's side of a hand-in: a stolen non-null reference leaves the
\* caller's hands, an acquired one stays with the caller.
Consume(p, s) ==
  IF p # nullptr /\ ~s.threw THEN [owned EXCEPT ![p] = @ - 1] ELSE owned

\* What a caller may hand to Steal: nullptr or a reference it owns.
Stealable(p) == IF p = nullptr THEN TRUE ELSE owned[p] >= 1

\* What a caller may hand to Acquire: nullptr or a live object.
Borrowable(p) == IF p = nullptr THEN TRUE ELSE ob_refcnt[p] >= 1

Log(op, r, src, p, old, s) ==
  [op |-> op, ref |-> r, src |-> src, arg |-> p, old |-> old,
   threw |-> s.threw]

\* Write a method's result back to the wrappers and the count table.
Apply(s) == obj_' = s.o /\ ob_refcnt' = s.rc

\* ------------------------------------------------- PythonRef: the actions

\* A runtime call returns a new object with one reference, owned by the
\* caller (Py_BuildValue and the like).
PyNewReference(p) ==
  /\ UNCHANGED nonRefVars
  /\ ob_refcnt[p] = 0
  /\ ob_refcnt' = [ob_refcnt EXCEPT ![p] = 1]
  /\ owned' = [owned EXCEPT ![p] = 1]
  /\ last' = [op |-> "new", ref |-> "-", src |-> "-", arg |-> p,
              old |-> nullptr, threw |-> FALSE]
  /\ UNCHANGED <<obj_, constructed>>

\* Native code takes a raw reference of its own (Py_INCREF).
PyIncref(p) ==
  /\ UNCHANGED nonRefVars
  /\ ob_refcnt[p] >= 1
  /\ owned[p] < MaxOwned
  /\ ob_refcnt' = Py_INCREF(ob_refcnt, p)
  /\ owned' = [owned EXCEPT ![p] = @ + 1]
  /\ last' = [op |-> "Py_INCREF", ref |-> "-", src |-> "-", arg |-> p,
              old |-> nullptr, threw |-> FALSE]
  /\ UNCHANGED <<obj_, constructed>>

\* Native code drops a raw reference it owns (Py_DECREF).
PyDecref(p) ==
  /\ UNCHANGED nonRefVars
  /\ owned[p] >= 1
  /\ ob_refcnt' = Py_DECREF(ob_refcnt, p)
  /\ owned' = [owned EXCEPT ![p] = @ - 1]
  /\ last' = [op |-> "Py_DECREF", ref |-> "-", src |-> "-", arg |-> p,
              old |-> nullptr, threw |-> FALSE]
  /\ UNCHANGED <<obj_, constructed>>

\* PythonRef::Stolen(obj) and its siblings build an instance with
\* PythonRef(obj, behavior); a throwing constructor leaves no instance.
Construct(r, p, b) ==
  /\ UNCHANGED nonRefVars
  /\ ~constructed[r]
  /\ IF IsSteal(b) THEN Stealable(p) ELSE Borrowable(p)
  /\ LET s == Shortcut(RefState, r, p, b)
     IN  /\ Apply(s)
         /\ constructed' = [constructed EXCEPT ![r] = ~s.threw]
         /\ owned' = IF IsSteal(b) THEN Consume(p, s) ELSE owned
         /\ last' = Log(b, r, "-", p, nullptr, s)

\* PythonRef() creates an instance in the unreferenced state.
ConstructEmpty(r) ==
  /\ UNCHANGED nonRefVars
  /\ ~constructed[r]
  /\ constructed' = [constructed EXCEPT ![r] = TRUE]
  /\ last' = Log("PythonRef", r, "-", nullptr, nullptr, RefState)
  /\ UNCHANGED <<ob_refcnt, owned, obj_>>

\* PythonRef(const PythonRef& other) { *this = other; }
CopyConstruct(r, other) ==
  /\ UNCHANGED nonRefVars
  /\ ~constructed[r] /\ constructed[other]
  /\ LET s == OperatorAssign(RefState, r, other)
     IN  /\ Apply(s)
         /\ constructed' = [constructed EXCEPT ![r] = TRUE]
         /\ last' = Log("copy", r, other, obj_[other], nullptr, s)
  /\ UNCHANGED owned

\* a = b on two existing instances (self-assignment is ruled out by the
\* assert at the top of operator=).
CopyAssign(r, other) ==
  /\ UNCHANGED nonRefVars
  /\ constructed[r] /\ constructed[other] /\ r # other
  /\ LET s == OperatorAssign(RefState, r, other)
     IN  /\ Apply(s)
         /\ last' = Log("operator=", r, other, obj_[other], obj_[r], s)
  /\ UNCHANGED <<owned, constructed>>

CallAcquire(r, p) ==
  /\ UNCHANGED nonRefVars
  /\ constructed[r] /\ Borrowable(p)
  /\ LET s == Acquire(RefState, r, p)
     IN  Apply(s) /\ last' = Log("Acquire", r, "-", p, obj_[r], s)
  /\ UNCHANGED <<owned, constructed>>

CallAcquireSoft(r, p) ==
  /\ UNCHANGED nonRefVars
  /\ constructed[r] /\ Borrowable(p)
  /\ LET s == AcquireSoft(RefState, r, p)
     IN  Apply(s) /\ last' = Log("AcquireSoft", r, "-", p, obj_[r], s)
  /\ UNCHANGED <<owned, constructed>>

CallSteal(r, p) ==
  /\ UNCHANGED nonRefVars
  /\ constructed[r] /\ Stealable(p)
  /\ LET s == Steal(RefState, r, p)
     IN  /\ Apply(s)
         /\ owned' = Consume(p, s)
         /\ last' = Log("Steal", r, "-", p, obj_[r], s)
  /\ UNCHANGED constructed

CallStealSoft(r, p) ==
  /\ UNCHANGED nonRefVars
  /\ constructed[r] /\ Stealable(p)
  /\ LET s == StealSoft(RefState, r, p)
     IN  /\ Apply(s)
         /\ owned' = Consume(p, s)
         /\ last' = Log("StealSoft", r, "-", p, obj_[r], s)
  /\ UNCHANGED constructed

CallRelease(r) ==
  /\ UNCHANGED nonRefVars
  /\ constructed[r]
  /\ LET s == Release(RefState, r)
     IN  Apply(s) /\ last' = Log("Release", r, "-", nullptr, obj_[r], s)
  /\ UNCHANGED <<owned, constructed>>

\* HandOver asserts that a reference is held.
CallHandOver(r) ==
  /\ UNCHANGED nonRefVars
  /\ constructed[r] /\ obj_[r] # nullptr
  /\ owned[obj_[r]] < MaxOwned
  /\ LET s == HandOver(RefState, r)
     IN  Apply(s) /\ last' = Log("HandOver", r, "-", nullptr, obj_[r], s)
  /\ owned' = [owned EXCEPT ![obj_[r]] = @ + 1]
  /\ UNCHANGED constructed

\* ~PythonRef() releases what the instance holds.
Destruct(r) ==
  /\ UNCHANGED nonRefVars
  /\ constructed[r]
  /\ LET s == Release(RefState, r)
     IN  Apply(s) /\ last' = Log("~PythonRef", r, "-", nullptr, obj_[r], s)
  /\ constructed' = [constructed EXCEPT ![r] = FALSE]
  /\ UNCHANGED owned

RefInit ==
  /\ LoopInit
  /\ WeakInit
  /\ TimerInit
  /\ ImportInit
  /\ LockInit
  /\ PlusInit
  /\ LifeInit
  /\ ConsoleInit
  /\ SessionInit
  /\ EnumInit
  /\ CommitInit
  /\ ob_refcnt = [p \in PyObjs |-> 0]
  /\ owned = [p \in PyObjs |-> 0]
  /\ obj_ = [r \in Refs |-> nullptr]
  /\ constructed = [r \in Refs |-> FALSE]
  /\ last = [op |-> "init", ref |-> "-", src |-> "-", arg |-> nullptr,
             old |-> nullptr, threw |-> FALSE]

RefNext ==
  \/ \E p \in PyObjs : PyNewReference(p)
  \/ \E p \in PyObjs : PyIncref(p)
  \/ \E p \in PyObjs : PyDecref(p)
  \/ \E r \in Refs, p \in PyPtrs, b \in Behaviors : Construct(r, p, b)
  \/ \E r \in Refs : ConstructEmpty(r)
  \/ \E r \in Refs, other \in Refs : CopyConstruct(r, other)
  \/ \E r \in Refs, other \in Refs : CopyAssign(r, other)
  \/ \E r \in Refs, p \in PyPtrs : CallAcquire(r, p)
  \/ \E r \in Refs, p \in PyPtrs : CallAcquireSoft(r, p)
  \/ \E r \in Refs, p \in PyPtrs : CallSteal(r, p)
  \/ \E r \in Refs, p \in PyPtrs : CallStealSoft(r, p)
  \/ \E r \in Refs : CallRelease(r)
  \/ \E r \in Refs : CallHandOver(r)
  \/ \E r \in Refs : Destruct(r)

SpecRef == RefInit /\ [][RefNext]_vars

\* ------------------------------------------------ PythonRef: the claims

\* The wrappers that currently point at p.
Holders(p) == {r \in Refs : constructed[r] /\ obj_[r] = p}

\* C1: whatever sequence of Acquire, Steal, Release, HandOver, copies and
\* destructions has run, an object's reference count is never zero while a
\* wrapper points at it, and it is exactly the number of wrappers pointing
\* at it plus the raw references native code owns: it is zero right after
\* the last holder lets go.
C1_RefCountTracksHolders ==
  /\ \A r \in Refs :
       constructed[r] /\ obj_[r] # nullptr => ob_refcnt[obj_[r]] >= 1
  /\ \A p \in PyObjs : ob_refcnt[p] = owned[p] + Cardinality(Holders(p))
  /\ \A p \in PyObjs :
       Holders(p) = {} /\ owned[p] = 0 => ob_refcnt[p] = 0

\* C1 witness: a wrapper that held the last reference to an object has just
\* released it or been pointed elsewhere, and the count is zero.
C1_Witness ==
  /\ last.op \in {"Release", "~PythonRef", "operator=", "Acquire", "Steal"}
  /\ last.old # nullptr
  /\ ob_refcnt[last.old] = 0

HardOps == {"Steal", "Acquire", "kSteal", "kAcquire"}

SoftOps == {"StealSoft", "AcquireSoft", "kStealSoft", "kAcquireSoft"}

\* C8: Steal and Acquire of nullptr throw and leave the wrapper as it was
\* (a constructor that throws leaves no instance); StealSoft and AcquireSoft
\* of nullptr succeed and leave the wrapper unreferenced.
C8_NullHardThrowsSoftClears ==
  /\ last.op \in HardOps /\ last.arg = nullptr =>
       /\ last.threw
       /\ obj_[last.ref] = last.old
       /\ (last.op \in Behaviors => ~constructed[last.ref])
  /\ last.op \in SoftOps /\ last.arg = nullptr =>
       /\ ~last.threw
       /\ constructed[last.ref]
       /\ obj_[last.ref] = nullptr

\* C8 witness: Stolen(nullptr) has just thrown.
C8_Witness == last.op = "kSteal" /\ last.arg = nullptr /\ last.threw

\* C9: Release() on a wrapper that holds nothing changes no wrapper, no
\* reference count and raises no error, so any number of calls in a row
\* leave it unreferenced.
C9_ReleaseOnEmptyIsNoOp ==
  [][\A r \in Refs :
       (constructed[r] /\ obj_[r] = nullptr
          /\ last'.op = "Release" /\ last'.ref = r)
       => /\ ~last'.threw
          /\ obj_' = obj_
          /\ obj_'[r] = nullptr
          /\ ob_refcnt' = ob_refcnt
          /\ owned' = owned]_vars

\* C9 witness: Release() has just run on a wrapper that held nothing.
C9_Witness ==
  last.op = "Release" /\ last.old = nullptr /\ obj_[last.ref] = nullptr

\* C10: a copy (operator= or the copy constructor) never steals. If the
\* source is referenced the destination ends on the same target with one
\* new reference on it and the source keeps its own; if the source is
\* unreferenced the destination releases what it held and is unreferenced.
C10_CopyAcquiresNeverSteals ==
  [][\A r \in Refs, other \in Refs :
       (last'.op \in {"operator=", "copy"} /\ last'.ref = r
          /\ last'.src = other /\ r # other /\ constructed[other])
       => LET p == obj_[other]
              old == obj_[r]
          IN  /\ ~last'.threw
              /\ obj_'[other] = p
              /\ owned' = owned
              /\ (old # nullptr /\ old # p =>
                    ob_refcnt'[old] = ob_refcnt[old] - 1)
              /\ IF p # nullptr
                   THEN /\ obj_'[r] = p
                        /\ ob_refcnt'[p] =
                             ob_refcnt[p] + (IF old = p THEN 0 ELSE 1)
                   ELSE obj_'[r] = nullptr]_vars

\* C10 witness: an assignment has moved a wrapper from one object to the
\* object its source holds.
C10_Witness ==
  /\ last.op = "operator="
  /\ last.arg # nullptr /\ last.old # nullptr /\ last.old # last.arg
  /\ obj_[last.ref] = last.arg /\ obj_[last.src] = last.arg

\* ------------------------------------------- the logic thread's EventLoop

\* Calls pushed to the logic loop by script code in a run of the model.
MaxPush == 4

\* Calls that may wait in the logic loop's queue at once.
MaxQueue == 2

\* ScopedSetContext instances nested inside the body of one running call.
MaxDepth == 2

\* The Python callable handed to pushcall.
call_obj == 1

\* BaseFeatureSet::InLogicThread: the logic loop exists and the calling
\* thread is its thread.
InLogicThread(t) == event_loop_ /\ t = "logic"

\* BaseFeatureSet::IsAppRunning
IsAppRunning == app_running_

\* AppMode::GetForegroundContext of app mode `mode`: the base
\* implementation, which AppModeEmpty has, returns the empty context; the
\* other modes return their foreground context.
GetForegroundContext(mode) == IF mode = AppModeEmpty THEN nullptr ELSE mode

\* A SetCurrentContext that ignores the empty context.
SetCurrentContextSkipsEmpty(cur, context) ==
  IF context = nullptr THEN cur ELSE context

\* BaseFeatureSet::SetCurrentContext: the new value of context_ref.
SetCurrentContext(cur, context) == context

\* EventLoop::PushCall: append under the queue lock.
EventLoopPushCall(q, c) == Append(q, c)

\* A runnable pushed to the logic loop. mode says which code pushed it,
\* from/n which thread and which of its pushes (n counts from 1), wrap
\* whether its body runs under a ScopedSetContext, ctx the context it
\* carries, use_fg whether it asks for the foreground context, sched the
\* ambient context when a context-saving call was scheduled, py whether it
\* carries a reference to call_obj; fg notes the foreground context at the
\* time of the push.
Runnable(mode, t, wrap, ctx, use_fg, sched, py) ==
  [mode |-> mode, from |-> t, n |-> pushed[t] + 1, wrap |-> wrap,
   ctx |-> ctx, use_fg |-> use_fg, sched |-> sched, py |-> py,
   fg |-> GetForegroundContext(app_mode_)]

\* The running call is on the logic thread, in its body.
InBody == executing["logic"] # NoCall /\ ~unwinding

\* Thread t is at a point where it can call into the engine: the logic
\* thread does so from the body of the call it is running.
CanCall(t) == IF t = "logic" THEN InBody ELSE TRUE

RECURSIVE Total(_, _)
\* The sum of counter f over the threads in S.
Total(f, S) ==
  IF S = {} THEN 0
  ELSE LET t == CHOOSE x \in S : TRUE IN f[t] + Total(f, S \ {t})

\* Room for one more push by t.
MayPush(t) ==
  /\ event_loop_
  /\ CanCall(t)
  /\ Total(pushed, Threads) < MaxPush
  /\ Len(queue) < MaxQueue

Enqueue(t, c) ==
  /\ queue' = EventLoopPushCall(queue, c)
  /\ pushed' = [pushed EXCEPT ![t] = @ + 1]

PushRecord(t, mode, threw) ==
  [op |-> "push", thread |-> t, mode |-> mode, threw |-> threw]

loopRest == <<called_start_app_, app_running_, app_mode_, event_loop_,
              executing,
              context_ref, ssc, unwinding, begun, finished>>

refRest == <<owned, obj_, constructed, weakVars, timerVars, importVars,
            lockVars,
              plusVars,
              lifeVars,
              consoleVars,
              sessionVars,
              enumVars,
              commitVars>>

\* pushcall in raw mode that puts the call at the head of the queue.
PyPushCallJumpsQueue(t, raw, from_other_thread, other_thread_use_fg_context) ==
  /\ MayPush(t)
  /\ raw
  /\ ob_refcnt' = Py_INCREF(ob_refcnt, call_obj)
  /\ queue' = <<Runnable("raw", t, FALSE, nullptr, FALSE, nullptr, TRUE)>>
                \o queue
  /\ pushed' = [pushed EXCEPT ![t] = @ + 1]
  /\ last' = PushRecord(t, "raw", FALSE)
  /\ UNCHANGED <<loopRest, refRest>>

\* pushcall in raw mode that runs the call at once on the calling thread.
PyPushCallRunsInline(t, raw, from_other_thread, other_thread_use_fg_context) ==
  /\ MayPush(t)
  /\ raw /\ t # "logic"
  /\ executing[t] = NoCall
  /\ executing' = [executing EXCEPT ![t] =
       [call |-> Runnable("raw", t, FALSE, nullptr, FALSE, nullptr, FALSE),
        observed |-> context_ref, before |-> context_ref]]
  /\ pushed' = [pushed EXCEPT ![t] = @ + 1]
  /\ begun' = [begun EXCEPT ![t] = @ + 1]
  /\ last' = PushRecord(t, "raw", FALSE)
  /\ UNCHANGED <<called_start_app_, app_running_, app_mode_, event_loop_,
                 queue,
                 context_ref, ssc, unwinding, finished, ob_refcnt, refRest>>

\* pushcall whose default mode pushes the bare callable, with no context.
PyPushCallDropsContext(t, raw, from_other_thread, other_thread_use_fg_context) ==
  /\ MayPush(t)
  /\ ~raw /\ ~from_other_thread /\ InLogicThread(t)
  /\ ob_refcnt' = Py_INCREF(ob_refcnt, call_obj)
  /\ Enqueue(t, Runnable("default", t, FALSE, nullptr, FALSE, context_ref,
                         TRUE))
  /\ last' = PushRecord(t, "default", FALSE)
  /\ UNCHANGED <<loopRest, refRest>>

\* pushcall whose from_other_thread mode resolves the foreground context
\* when the call is pushed.
PyPushCallCapturesForeground(t, raw, from_other_thread, other_thread_use_fg_context) ==
  /\ MayPush(t)
  /\ ~raw /\ from_other_thread
  /\ ob_refcnt' = Py_INCREF(ob_refcnt, call_obj)
  /\ Enqueue(t, Runnable("captured", t, TRUE,
                         IF other_thread_use_fg_context
                           THEN GetForegroundContext(app_mode_)
                           ELSE nullptr,
                         other_thread_use_fg_context, nullptr, TRUE))
  /\ last' = PushRecord(t, "other", FALSE)
  /\ UNCHANGED <<loopRest, refRest>>

\* pushcall that schedules a context-saving call whatever thread it is on.
PyPushCallFromAnyThread(t, raw, from_other_thread, other_thread_use_fg_context) ==
  /\ MayPush(t)
  /\ IF raw
       THEN \* no thread check and no context save/restore
            /\ ob_refcnt' = Py_INCREF(ob_refcnt, call_obj)
            /\ Enqueue(t, Runnable("raw", t, FALSE, nullptr, FALSE, nullptr,
                                   TRUE))
            /\ last' = PushRecord(t, "raw", FALSE)
       ELSE IF from_other_thread
         THEN \* runs under the empty context, or the foreground one
              /\ ob_refcnt' = Py_INCREF(ob_refcnt, call_obj)
              /\ Enqueue(t, Runnable("other", t, TRUE, nullptr,
                                     other_thread_use_fg_context, nullptr,
                                     TRUE))
              /\ last' = PushRecord(t, "other", FALSE)
         ELSE   /\ ob_refcnt' = Py_INCREF(ob_refcnt, call_obj)
                /\ Enqueue(t, Runnable("default", t, TRUE, context_ref,
                                       FALSE, context_ref, TRUE))
                /\ last' = PushRecord(t, "default", FALSE)
  /\ UNCHANGED <<loopRest, refRest>>

\* pushcall that, in raw and from_other_thread mode, passes the callable
\* along without taking a reference to it.
PyPushCallBorrows(t, raw, from_other_thread, other_thread_use_fg_context) ==
  /\ MayPush(t)
  /\ ob_refcnt[call_obj] >= 1
  /\ IF raw
       THEN \* no thread check and no context save/restore
            /\ UNCHANGED ob_refcnt
            /\ Enqueue(t, Runnable("raw", t, FALSE, nullptr, FALSE, nullptr,
                                   TRUE))
            /\ last' = PushRecord(t, "raw", FALSE)
       ELSE IF from_other_thread
         THEN \* runs under the empty context, or the foreground one
              /\ UNCHANGED ob_refcnt
              /\ Enqueue(t, Runnable("other", t, TRUE, nullptr,
                                     other_thread_use_fg_context, nullptr,
                                     TRUE))
              /\ last' = PushRecord(t, "other", FALSE)
         ELSE IF ~InLogicThread(t)
           THEN \* throw Exception("You must use from_other_thread mode.")
                /\ last' = PushRecord(t, "default", TRUE)
                /\ UNCHANGED <<ob_refcnt, queue, pushed>>
           ELSE \* Object::New<PythonContextCall>(call_obj)->Schedule():
                \* the call keeps the context current at its creation
                /\ ob_refcnt' = Py_INCREF(ob_refcnt, call_obj)
                /\ Enqueue(t, Runnable("default", t, TRUE, context_ref,
                                       FALSE, context_ref, TRUE))
                /\ last' = PushRecord(t, "default", FALSE)
  /\ UNCHANGED <<loopRest, refRest>>

\* babase.pushcall(call, from_other_thread, suppress_other_thread_warning,
\* other_thread_use_fg_context, raw), called on thread t.
PyPushCall(t, raw, from_other_thread, other_thread_use_fg_context) ==
  /\ MayPush(t)
  /\ ob_refcnt[call_obj] >= 1
  /\ IF raw
       THEN \* no thread check and no context save/restore
            /\ ob_refcnt' = Py_INCREF(ob_refcnt, call_obj)
            /\ Enqueue(t, Runnable("raw", t, FALSE, nullptr, FALSE, nullptr,
                                   TRUE))
            /\ last' = PushRecord(t, "raw", FALSE)
       ELSE IF from_other_thread
         THEN \* runs under the empty context, or the foreground one
              /\ ob_refcnt' = Py_INCREF(ob_refcnt, call_obj)
              /\ Enqueue(t, Runnable("other", t, TRUE, nullptr,
                                     other_thread_use_fg_context, nullptr,
                                     TRUE))
              /\ last' = PushRecord(t, "other", FALSE)
         ELSE IF ~InLogicThread(t)
           THEN \* throw Exception("You must use from_other_thread mode.")
                /\ last' = PushRecord(t, "default", TRUE)
                /\ UNCHANGED <<ob_refcnt, queue, pushed>>
           ELSE \* Object::New<PythonContextCall>(call_obj)->Schedule():
                \* the call keeps the context current at its creation
                /\ ob_refcnt' = Py_INCREF(ob_refcnt, call_obj)
                /\ Enqueue(t, Runnable("default", t, TRUE, context_ref,
                                       FALSE, context_ref, TRUE))
                /\ last' = PushRecord(t, "default", FALSE)
  /\ UNCHANGED <<loopRest, refRest>>

\* BaseFeatureSet::DoPushObjCall(objset, id): the stored object is called
\* on the logic thread under the empty context.
DoPushObjCall(t) ==
  /\ MayPush(t)
  /\ Enqueue(t, Runnable("objcall", t, TRUE, nullptr, FALSE, nullptr, FALSE))
  /\ last' = PushRecord(t, "objcall", FALSE)
  /\ UNCHANGED <<loopRest, ob_refcnt, refRest>>

\* BaseFeatureSet::V1CloudLog: with the app running the Python layer's hook
\* is pushed; before that the log is shipped directly and nothing is pushed.
V1CloudLog(t) ==
  IF app_running_
    THEN DoPushObjCall(t)
    ELSE /\ CanCall(t)
         /\ last' = [op |-> "V1CloudLog", thread |-> t]
         /\ UNCHANGED <<loopVars, ob_refcnt, refRest>>

\* BaseFeatureSet::StartApp up to the subsystems' OnMainThreadStartApp: the
\* logic thread and its EventLoop come up.
StartAppBegin ==
  /\ ~called_start_app_
  /\ called_start_app_' = TRUE
  /\ event_loop_' = TRUE
  /\ last' = [op |-> "StartApp"]
  /\ UNCHANGED <<app_running_, app_mode_, queue, executing, context_ref,
                 ssc, unwinding,
                 pushed, begun, finished, ob_refcnt, refRest>>

\* BaseFeatureSet::StartApp, the rest: the app is marked running and
\* Logic::ApplyAppConfig is pushed to the logic loop.
StartAppEnd ==
  /\ called_start_app_ /\ ~app_running_
  /\ app_running_' = TRUE
  /\ Enqueue("main", Runnable("native", "main", FALSE, nullptr, FALSE,
                              nullptr, FALSE))
  /\ last' = PushRecord("main", "native", FALSE)
  /\ UNCHANGED <<called_start_app_, app_mode_, event_loop_, executing,
                 context_ref, ssc,
                 unwinding, begun, finished, ob_refcnt, refRest>>

\* A lambda that runs a call pushed from another thread under whatever
\* context is current when it starts.
TargetContextKeepsAmbient(c) ==
  IF c.mode = "other" THEN context_ref ELSE c.ctx

\* The context the body of runnable c is run under (for those that set one).
TargetContext(c) ==
  IF c.mode = "other"
    THEN IF c.use_fg THEN GetForegroundContext(app_mode_) ELSE nullptr
    ELSE c.ctx

\* ScopedSetContext::ScopedSetContext on top of stack st: remember the
\* current context; `entered` notes what was ambient at that moment.
ScopedSetContextEnter(st, cur) ==
  Append(st, [context_prev_ |-> cur, entered |-> cur])

\* The logic loop takes the oldest runnable and starts it: the lambda
\* constructs its ScopedSetContext (if it has one) and enters the callable.
RunnableBegin ==
  /\ event_loop_
  /\ executing["logic"] = NoCall
  /\ queue # <<>>
  /\ LET c == Head(queue)
         cur == IF c.wrap
                  THEN SetCurrentContext(context_ref, TargetContext(c))
                  ELSE context_ref
     IN  /\ queue' = Tail(queue)
         /\ ssc' = IF c.wrap THEN ScopedSetContextEnter(ssc, context_ref)
                             ELSE ssc
         /\ context_ref' = cur
         /\ executing' = [executing EXCEPT !["logic"] =
               [call |-> c, observed |-> cur, before |-> context_ref]]
         /\ begun' = [begun EXCEPT ![c.from] = @ + 1]
         /\ last' = [op |-> "begin", mode |-> c.mode, from |-> c.from,
                     n |-> c.n, sched |-> c.sched, observed |-> cur,
                     before |-> context_ref, use_fg |-> c.use_fg,
                     fg |-> c.fg,
                     after_error |-> IF last.op = "end" THEN last.error
                                                        ELSE FALSE]
  /\ UNCHANGED <<called_start_app_, app_running_, app_mode_, event_loop_,
                 unwinding,
                 pushed, finished, ob_refcnt, refRest>>

\* How many ScopedSetContext instances belong to the lambda itself.
BaseDepth == IF executing["logic"].call.wrap THEN 1 ELSE 0

\* Code of the running call sets the context directly.
BodySetCurrentContext(c) ==
  /\ InBody
  /\ context_ref' = SetCurrentContext(context_ref, c)
  /\ last' = [op |-> "set"]
  /\ UNCHANGED <<called_start_app_, app_running_, app_mode_, event_loop_,
                 queue,
                 executing, ssc, unwinding, pushed, begun, finished,
                 ob_refcnt, refRest>>

\* Code of the running call opens a ScopedSetContext (BasePython::RunDeepLink
\* does, with the empty context).
BodyEnterScope(c) ==
  /\ InBody
  /\ Len(ssc) - BaseDepth < MaxDepth
  /\ ssc' = ScopedSetContextEnter(ssc, context_ref)
  /\ context_ref' = SetCurrentContext(context_ref, c)
  /\ last' = [op |-> "enter"]
  /\ UNCHANGED <<called_start_app_, app_running_, app_mode_, event_loop_,
                 queue,
                 executing, unwinding, pushed, begun, finished, ob_refcnt,
                 refRest>>

\* An exception in the running call that takes the loop's queue with it.
BodyThrowEscapes ==
  /\ InBody
  /\ unwinding' = TRUE
  /\ queue' = <<>>
  /\ last' = [op |-> "throw"]
  /\ UNCHANGED <<called_start_app_, app_running_, app_mode_, event_loop_,
                 executing, context_ref, ssc, pushed, begun, finished,
                 ob_refcnt, refRest>>

\* An exception is thrown in the running call.
BodyThrow ==
  /\ InBody
  /\ unwinding' = TRUE
  /\ last' = [op |-> "throw"]
  /\ UNCHANGED <<called_start_app_, app_running_, app_mode_, event_loop_,
                 queue,
                 executing, context_ref, ssc, pushed, begun, finished,
                 ob_refcnt, refRest>>

\* BaseFeatureSet::set_app_mode(mode), called by code of the running call.
set_app_mode(mode) ==
  /\ InBody
  /\ app_mode_' = mode
  /\ last' = [op |-> "set_app_mode", mode |-> mode]
  /\ UNCHANGED <<called_start_app_, app_running_, event_loop_, queue,
                 executing, context_ref, ssc, unwinding, pushed, begun,
                 finished, ob_refcnt, refRest>>

\* ScopedSetContext::~ScopedSetContext of the innermost instance: the
\* context it restores.
ScopedSetContextExit(st, cur) ==
  SetCurrentContext(cur, st[Len(st)].context_prev_)

\* A ScopedSetContext opened by the running call is destroyed, on leaving
\* its block or while an exception unwinds through it.
BodyExitScope ==
  /\ executing["logic"] # NoCall
  /\ Len(ssc) > BaseDepth
  /\ context_ref' = ScopedSetContextExit(ssc, context_ref)
  /\ ssc' = SubSeq(ssc, 1, Len(ssc) - 1)
  /\ last' = [op |-> "exit", depth |-> Len(ssc), error |-> unwinding,
              inner |-> context_ref, restored |-> context_ref']
  /\ UNCHANGED <<called_start_app_, app_running_, app_mode_, event_loop_,
                 queue,
                 executing, unwinding, pushed, begun, finished, ob_refcnt,
                 refRest>>

\* The running call returns to the loop (PythonRef::Call has caught and
\* printed a Python error, if there was one): the lambda's PythonRef and
\* ScopedSetContext are destroyed.
RunnableEnd ==
  /\ executing["logic"] # NoCall
  /\ Len(ssc) = BaseDepth
  /\ LET e == executing["logic"]
         c == e.call
         after == IF c.wrap THEN ScopedSetContextExit(ssc, context_ref)
                            ELSE context_ref
     IN  /\ context_ref' = after
         /\ ssc' = <<>>
         /\ ob_refcnt' = IF c.py THEN Py_DECREF(ob_refcnt, call_obj)
                                 ELSE ob_refcnt
         /\ last' = [op |-> "end", mode |-> c.mode, from |-> c.from,
                     n |-> c.n, sched |-> c.sched, observed |-> e.observed,
                     before |-> e.before, after |-> after,
                     error |-> unwinding]
         /\ finished' = [finished EXCEPT ![c.from] = @ + 1]
  /\ executing' = [executing EXCEPT !["logic"] = NoCall]
  /\ unwinding' = FALSE
  /\ UNCHANGED <<called_start_app_, app_running_, app_mode_, event_loop_,
                 queue, pushed,
                 begun, refRest>>

\* The script layer holds call_obj; nothing else exists yet.
LoopSpecInit ==
  /\ LoopInit
  /\ WeakInit
  /\ TimerInit
  /\ ImportInit
  /\ LockInit
  /\ PlusInit
  /\ LifeInit
  /\ ConsoleInit
  /\ SessionInit
  /\ EnumInit
  /\ CommitInit
  /\ ob_refcnt = [p \in PyObjs |-> IF p = call_obj THEN 1 ELSE 0]
  /\ owned = [p \in PyObjs |-> IF p = call_obj THEN 1 ELSE 0]
  /\ obj_ = [r \in Refs |-> nullptr]
  /\ constructed = [r \in Refs |-> FALSE]
  /\ last = [op |-> "init"]

\* The logic loop and the threads that feed it: every thread pushes calls,
\* the loop runs them; the bodies do nothing to the context.
LoopNext ==
  \/ StartAppBegin
  \/ StartAppEnd
  \/ \E t \in Threads, raw \in BOOLEAN, from_other_thread \in BOOLEAN,
        other_thread_use_fg_context \in BOOLEAN :
       PyPushCall(t, raw, from_other_thread, other_thread_use_fg_context)
  \/ \E t \in Threads : V1CloudLog(t)
  \/ RunnableBegin
  \/ BodyThrow
  \/ RunnableEnd

SpecLoop == LoopSpecInit /\ [][LoopNext]_vars

\* The logic thread and the current context: the main thread starts the app,
\* the calls the loop runs set contexts, open and close scopes, throw, and
\* push further calls.
ContextNext ==
  \/ StartAppBegin
  \/ StartAppEnd
  \/ \E raw \in BOOLEAN, from_other_thread \in BOOLEAN,
        other_thread_use_fg_context \in BOOLEAN :
       PyPushCall("logic", raw, from_other_thread,
                  other_thread_use_fg_context)
  \/ RunnableBegin
  \/ \E c \in Contexts : BodySetCurrentContext(c)
  \/ \E c \in Contexts : BodyEnterScope(c)
  \/ BodyThrow
  \/ BodyExitScope
  \/ RunnableEnd

SpecContext == LoopSpecInit /\ [][ContextNext]_vars

\* C4: calls pushed to the logic loop by one thread are run in the order
\* that thread pushed them, each after the one before it has finished,
\* whatever other threads push in between: the call the loop starts is the
\* next one of its pusher, and all that pusher's earlier calls are done.
C4_PerThreadFifo ==
  /\ last.op = "begin" =>
       /\ last.n = begun[last.from]
       /\ finished[last.from] = last.n - 1
  /\ last.op = "end" => last.n = finished[last.from]

\* The third call of the main thread has run, after calls of the logic
\* thread's own were run as well.
C4_Witness ==
  /\ last.op = "end"
  /\ last.from = "main"
  /\ last.n = 3
  /\ finished["logic"] >= 1

\* The threads that are inside a pushed call.
Running == {t \in Threads : executing[t] # NoCall}

\* C5: a call pushed to the logic thread runs on the logic thread only, and
\* to completion: no call starts while another has started and not finished.
C5_RunToCompletionOnLogicThread ==
  /\ \A t \in Running : InLogicThread(t)
  /\ Cardinality(Running) <= 1
  /\ Total(begun, Threads) - Total(finished, Threads) = Cardinality(Running)
  /\ last.op = "begin" => Total(finished, Threads) = Total(begun, Threads) - 1

\* A raw call pushed by the main thread is running on the logic thread while
\* another call waits in the queue.
C5_Witness ==
  /\ executing["logic"] # NoCall
  /\ executing["logic"].call.from = "main"
  /\ executing["logic"].call.mode = "raw"
  /\ queue # <<>>

\* C6: when a ScopedSetContext is destroyed, on normal exit or on an error,
\* at any depth, it is the innermost one and the current context is again
\* what it was when that instance was constructed.
C6_ScopedSetContextRoundTrip ==
  [][Len(ssc') < Len(ssc) =>
       /\ ssc' = SubSeq(ssc, 1, Len(ssc) - 1)
       /\ context_ref' = ssc[Len(ssc)].entered]_vars

\* A scope nested in two others was left by an exception, and leaving it
\* changed the current context back.
C6_Witness ==
  /\ last.op = "exit"
  /\ last.error
  /\ last.depth = 3
  /\ last.inner # last.restored

\* C15: a call that fails does not harm the loop: while its error unwinds
\* and when it ends, every call waiting in the queue stays there, in order;
\* after it the loop is idle again with nothing of the call left over, and
\* it can start the oldest waiting call, which is what it starts next.
C15_FailingCallLeavesQueueIntact ==
  /\ [](( last.op = "end" /\ last.error) =>
          /\ executing["logic"] = NoCall
          /\ ~unwinding
          /\ ssc = <<>>
          /\ queue # <<>> => ENABLED RunnableBegin)
  /\ [][/\ (unwinding \/ unwinding') =>
            IF Len(queue') < Len(queue) THEN FALSE
            ELSE SubSeq(queue', 1, Len(queue)) = queue
         /\ (last.op = "end" /\ last.error /\ last'.op = "begin") =>
            /\ executing'["logic"].call = Head(queue)
            /\ queue' = Tail(queue)
        ]_vars

\* A call was started right after one that failed, with another still
\* waiting behind it.
C15_Witness ==
  /\ last.op = "begin"
  /\ last.after_error
  /\ queue # <<>>

\* C20: pushcall called on a thread other than the logic thread, with
\* neither raw nor from_other_thread, throws, and the step leaves the queue
\* of the logic loop, the count of pushes and the reference count of the
\* callable as they were.
C20_DefaultPushOffThreadFails ==
  [][IF last'.op = "push"
       THEN (last'.mode = "default" /\ last'.thread # "logic") =>
              /\ last'.threw
              /\ queue' = queue
              /\ pushed' = pushed
              /\ ob_refcnt' = ob_refcnt
       ELSE TRUE]_vars

\* Such a pushcall has failed while a call pushed before waits in the queue.
C20_Witness ==
  /\ last.op = "push"
  /\ IF last.op = "push"
       THEN last.mode = "default" /\ last.thread = "main" /\ last.threw
       ELSE FALSE
  /\ queue # <<>>

\* The logic loop and the foreground context: threads push calls in the
\* from_other_thread mode, the calls the loop runs change the app mode.
ForegroundNext ==
  \/ StartAppBegin
  \/ StartAppEnd
  \/ \E t \in Threads, other_thread_use_fg_context \in BOOLEAN :
       PyPushCall(t, FALSE, TRUE, other_thread_use_fg_context)
  \/ RunnableBegin
  \/ \E mode \in AppModes : set_app_mode(mode)
  \/ BodyThrow
  \/ RunnableEnd

SpecForeground == LoopSpecInit /\ [][ForegroundNext]_vars

\* C11: a call pushed with other_thread_use_fg_context runs under the
\* context the active app mode has in the foreground when the call is run,
\* whatever was in the foreground when it was pushed.
C11_ForegroundResolvedAtRun ==
  (last.op = "begin" /\ last.use_fg) =>
    last.observed = GetForegroundContext(app_mode_)

\* Pushed while context 1 was in the foreground and run when context 2 was:
\* the call saw context 2.
C11_Witness ==
  /\ last.op = "begin"
  /\ last.use_fg
  /\ last.fg = 1
  /\ last.observed = 2

\* Calls pushed with raw or from_other_thread from the main thread, while
\* bodies on the logic thread set the context (to none or to context 1) and
\* change the app mode (to the empty one or to the one of context 2); the
\* script layer may drop its own reference to the callable.
OtherThreadNext ==
  \/ StartAppBegin
  \/ StartAppEnd
  \/ \E raw \in BOOLEAN, other_thread_use_fg_context \in BOOLEAN :
       PyPushCall("main", raw, TRUE, other_thread_use_fg_context)
  \/ RunnableBegin
  \/ \E c \in {nullptr, 1} : BodySetCurrentContext(c)
  \/ \E mode \in {AppModeEmpty, 2} : set_app_mode(mode)
  \/ RunnableEnd
  \/ \E p \in PyObjs : PyDecref(p)

SpecOtherThread == LoopSpecInit /\ [][OtherThreadNext]_vars

\* C21: a call pushed with from_other_thread starts under the empty
\* context, or under the foreground context of the app mode when
\* other_thread_use_fg_context was set, whatever context was current on the
\* logic thread; when it returns the context that was current before it is
\* current again.
C21_OtherThreadCallContext ==
  /\ IF last.op = "begin"
       THEN last.mode = "other" =>
              last.observed = IF last.use_fg
                                THEN GetForegroundContext(app_mode_)
                                ELSE nullptr
       ELSE TRUE
  /\ IF last.op = "end"
       THEN last.mode = "other" =>
              /\ last.after = last.before
              /\ context_ref = last.before
       ELSE TRUE

\* Such a call has returned: it ran under a context other than the one
\* current before it, its body set a third, and the first is back.
C21_Witness ==
  /\ last.op = "end"
  /\ IF last.op = "end"
       THEN /\ last.mode = "other"
            /\ last.before = 1
            /\ last.observed = 2
            /\ context_ref = 1
       ELSE FALSE

\* The calls pushed and not yet finished that hold a reference to call_obj.
Pending ==
  Cardinality({i \in 1..Len(queue) : queue[i].py})
    + (IF executing["logic"] = NoCall THEN 0
       ELSE IF executing["logic"].call.py THEN 1 ELSE 0)

\* C23: each call pushed with raw or from_other_thread holds one reference
\* to the callable from the push until its execution has ended, and no
\* more: the reference count is the script layer's references plus one per
\* such call, so it is at least 1 while a call is waiting or running and
\* back to what the script layer holds once the calls have run.
C23_PushHoldsOneReference ==
  /\ ob_refcnt[call_obj] = owned[call_obj] + Pending
  /\ Pending > 0 => ob_refcnt[call_obj] >= 1

\* The script layer dropped its reference while a raw call was waiting; the
\* call has run and its end released the last reference.
C23_Witness ==
  /\ last.op = "end"
  /\ IF last.op = "end" THEN last.mode = "raw" ELSE FALSE
  /\ owned[call_obj] = 0
  /\ ob_refcnt[call_obj] = 0

\* C7: a call scheduled in the default mode runs under the context that was
\* current when it was scheduled, and when it has run the current context
\* is what it was just before the call ran.
C7_ContextCallUsesScheduledContext ==
  /\ (last.op = "begin" /\ last.mode = "default") =>
       last.observed = last.sched
  /\ (last.op = "end" /\ last.mode = "default") =>
       last.after = last.before

\* Scheduled under context 1 and run when context 2 was current: the call
\* saw context 1 and context 2 is current again.
C7_Witness ==
  /\ last.op = "end"
  /\ last.mode = "default"
  /\ last.sched = 1
  /\ last.observed = 1
  /\ last.before = 2
  /\ last.after = 2

\* ----------------------------------------- weak references to Widgets

\* Widgets made at one address in a run of the model.
MaxGen == 2

\* What a Widget* can be.
WidgetPtrs == Widgets \cup {nullptr}

\* A default-constructed Object::WeakRef<Widget>: it refers to nothing.
EmptyWeakRef == [allocated |-> TRUE, obj |-> nullptr, bound |-> <<>>]

\* Object::WeakRef::Get: the object, or nullptr when it is gone.
WeakRefGet(wr, h) == wr[h].obj

\* Object::WeakRef::operator=(T*): refer to w; `bound` notes which Widget
\* (address and incarnation) that was.
WeakRefAssign(wr, h, w) ==
  [wr EXCEPT ![h] =
     [allocated |-> TRUE, obj |-> w,
      bound |-> IF w = nullptr THEN <<>> ELSE <<w, incarnation[w]>>]]

\* Object::~Object: every weak reference to w is cleared.
ObjectDestroy(wr, w) ==
  [h \in PyWidgets |->
     IF wr[h].allocated
       THEN IF wr[h].obj = w THEN [wr[h] EXCEPT !.obj = nullptr] ELSE wr[h]
       ELSE wr[h]]

\* Whether the Widget that h was made to refer to still exists.
BoundLive(h) ==
  LET b == widget_[h].bound
  IN  IF b = <<>> THEN FALSE
      ELSE live[b[1]] /\ incarnation[b[1]] = b[2]

\* Widget::has_py_ref
has_py_ref(w) ==
  \E h \in PyWidgets :
    py_widget[h] /\ widget_[h].allocated /\ widget_[h].obj = w

\* Thread t is not inside a method of a PythonClassWidget.
Idle(t) == get_[t] = NoGet

\* No thread is inside a method of h.
Unused(h) ==
  \A t \in Threads : IF get_[t] = NoGet THEN TRUE ELSE get_[t].h # h

\* The calls in progress on weak references to w learn that w was destroyed
\* by thread t while they ran.
Overlap(t, w) ==
  [u \in Threads |->
     IF get_[u] = NoGet THEN get_[u]
     ELSE IF WeakRefGet(widget_, get_[u].h) = w
       THEN [get_[u] EXCEPT !.overlapped = t]
       ELSE get_[u]]

weakRest == <<timerVars, importVars, lockVars,
              plusVars,
              lifeVars,
              consoleVars,
              sessionVars,
              enumVars,
              commitVars, ob_refcnt, owned, obj_,
              constructed,
              called_start_app_, app_running_, app_mode_, event_loop_,
              executing, context_ref, ssc, unwinding>>

\* The engine makes a Widget at address w, on the logic thread.
NewWidget(w) ==
  /\ Idle("logic")
  /\ ~live[w]
  /\ incarnation[w] < MaxGen
  /\ live' = [live EXCEPT ![w] = TRUE]
  /\ incarnation' = [incarnation EXCEPT ![w] = @ + 1]
  /\ last' = [op |-> "NewWidget", thread |-> "logic", w |-> w]
  /\ UNCHANGED <<py_widget, widget_, get_, queue, pushed, begun, finished,
                 weakRest>>

\* A tp_new that does not look at the thread it is on.
tp_newOnAnyThread(t) == [threw |-> FALSE, widget_ |-> EmptyWeakRef]

\* PythonClassWidget::tp_new on thread t: the new instance's widget_, or an
\* exception.
tp_new(t) ==
  IF ~InLogicThread(t)
    THEN [threw |-> TRUE, widget_ |-> NoWeakRef]
    ELSE [threw |-> FALSE, widget_ |-> EmptyWeakRef]


\* The slot of h is free: no instance, and no WeakRef of an earlier instance
\* waiting to be deleted.
Free(h) == ~py_widget[h] /\ ~widget_[h].allocated

\* Script code on thread t calls the Widget type: tp_new makes instance h
\* with an empty weak reference, or throws.
NewPythonWidget(t, h) ==
  /\ Idle(t)
  /\ Free(h)
  /\ LET r == tp_new(t)
     IN  /\ py_widget' = [py_widget EXCEPT ![h] = ~r.threw]
         /\ widget_' = [widget_ EXCEPT ![h] = r.widget_]
         /\ last' = [op |-> "tp_new", thread |-> t, h |-> h,
                     threw |-> r.threw]
  /\ UNCHANGED <<live, incarnation, get_, queue, pushed, begun, finished,
                 weakRest>>

\* PythonClassWidget::Create(widget) on thread t: a new instance h whose
\* weak reference is set to widget.
Create(t, h, widget) ==
  /\ Idle(t)
  /\ Free(h)
  /\ IF widget = nullptr THEN TRUE
                         ELSE live[widget] /\ ~has_py_ref(widget)
  /\ LET r == tp_new(t)
     IN  /\ py_widget' = [py_widget EXCEPT ![h] = ~r.threw]
         /\ widget_' = IF r.threw
                         THEN widget_
                         ELSE WeakRefAssign([widget_ EXCEPT ![h] = r.widget_],
                                            h, widget)
         /\ last' = [op |-> "Create", thread |-> t, h |-> h,
                     threw |-> r.threw]
  /\ UNCHANGED <<live, incarnation, get_, queue, pushed, begun, finished,
                 weakRest>>

\* Thread t enters method m of instance h.
MethodCall(t, h, m) ==
  /\ Idle(t)
  /\ py_widget[h]
  /\ get_' = [get_ EXCEPT ![t] = [m |-> m, h |-> h, overlapped |-> "-"]]
  /\ last' = [op |-> "call", thread |-> t, h |-> h]
  /\ UNCHANGED <<live, incarnation, py_widget, widget_, queue, pushed, begun,
                 finished, weakRest>>

\* What a method that has read w from the weak reference of h reports.
GetRecord(t, w, threw) ==
  [op |-> get_[t].m, thread |-> t, h |-> get_[t].h, w |-> w,
   found |-> w # nullptr, threw |-> threw,
   live |-> IF w = nullptr THEN FALSE ELSE live[w],
   bound |-> widget_[get_[t].h].bound,
   bound_live |-> BoundLive(get_[t].h),
   overlapped |-> get_[t].overlapped]

\* PythonClassWidget::GetWidget on thread t: the widget, or an exception.
GetWidget(t) ==
  /\ get_[t].m = "GetWidget"
  /\ LET w == WeakRefGet(widget_, get_[t].h)
     IN  last' = GetRecord(t, w, w = nullptr)
  /\ get_' = [get_ EXCEPT ![t] = NoGet]
  /\ UNCHANGED <<live, incarnation, py_widget, widget_, queue, pushed, begun,
                 finished, weakRest>>

\* PythonClassWidget::Exists on thread t: True or False.
WidgetExists(t) ==
  /\ get_[t].m = "Exists"
  /\ LET w == WeakRefGet(widget_, get_[t].h)
     IN  last' = GetRecord(t, w, FALSE)
  /\ get_' = [get_ EXCEPT ![t] = NoGet]
  /\ UNCHANGED <<live, incarnation, py_widget, widget_, queue, pushed, begun,
                 finished, weakRest>>

\* The Widget w is destroyed by thread t.
DestroyWidget(t, w) ==
  /\ live' = [live EXCEPT ![w] = FALSE]
  /\ widget_' = ObjectDestroy(widget_, w)
  /\ get_' = Overlap(t, w)

\* A delete() that invalidates the weak references only when the logic
\* thread runs it.
WidgetDeleteOwnerOnly(t, h, ignore_missing, has_parent) ==
  /\ Idle(t)
  /\ py_widget[h]
  /\ WeakRefGet(widget_, h) # nullptr
  /\ has_parent
  /\ IF InLogicThread(t)
       THEN DestroyWidget(t, WeakRefGet(widget_, h))
       ELSE /\ live' = [live EXCEPT ![WeakRefGet(widget_, h)] = FALSE]
            /\ get_' = Overlap(t, WeakRefGet(widget_, h))
            /\ UNCHANGED widget_
  /\ last' = [op |-> "Delete", thread |-> t, h |-> h, threw |-> FALSE]
  /\ UNCHANGED <<incarnation, py_widget, queue, pushed, begun, finished,
                 weakRest>>

\* A delete() that frees the widget and leaves the weak references alone.
WidgetDeleteLeavesHandles(t, h, ignore_missing, has_parent) ==
  /\ Idle(t)
  /\ py_widget[h]
  /\ WeakRefGet(widget_, h) # nullptr
  /\ has_parent
  /\ live' = [live EXCEPT ![WeakRefGet(widget_, h)] = FALSE]
  /\ last' = [op |-> "Delete", thread |-> t, h |-> h, threw |-> FALSE]
  /\ UNCHANGED <<incarnation, py_widget, widget_, get_, queue, pushed, begun,
                 finished, weakRest>>

\* PythonClassWidget::Delete(ignore_missing) on thread t (the widget's
\* delete() method): a widget that is gone is ignored or reported; one that
\* exists is deleted by its parent, if it has one.
WidgetDelete(t, h, ignore_missing, has_parent) ==
  /\ Idle(t)
  /\ py_widget[h]
  /\ LET w == WeakRefGet(widget_, h)
     IN  IF w = nullptr
           THEN /\ last' = [op |-> "Delete", thread |-> t, h |-> h,
                            threw |-> ~ignore_missing]
                /\ UNCHANGED <<live, widget_, get_>>
           ELSE IF has_parent
             THEN /\ DestroyWidget(t, w)
                  /\ last' = [op |-> "Delete", thread |-> t, h |-> h,
                              threw |-> FALSE]
             ELSE \* Log(LogLevel::kError, "Can't delete widget: no parent.")
                  /\ last' = [op |-> "Delete", thread |-> t, h |-> h,
                              threw |-> FALSE]
                  /\ UNCHANGED <<live, widget_, get_>>
  /\ UNCHANGED <<incarnation, py_widget, queue, pushed, begun, finished,
                 weakRest>>

\* The runnable tp_dealloc pushes: the lambda that deletes the WeakRef of h.
DeleteCall(t, h) ==
  [mode |-> "delete", from |-> t, n |-> pushed[t] + 1, wrap |-> FALSE,
   ctx |-> nullptr, use_fg |-> FALSE, sched |-> nullptr, py |-> FALSE,
   w |-> h]

\* A tp_dealloc that deletes the WeakRef where it is, on any thread.
tp_deallocInPlace(t, h) ==
  /\ Idle(t)
  /\ py_widget[h]
  /\ Unused(h)
  /\ py_widget' = [py_widget EXCEPT ![h] = FALSE]
  /\ widget_' = [widget_ EXCEPT ![h] = NoWeakRef]
  /\ last' = [op |-> "tp_dealloc", thread |-> t, h |-> h,
              deferred |-> FALSE]
  /\ UNCHANGED <<live, incarnation, get_, queue, pushed, begun, finished,
                 weakRest>>

\* PythonClassWidget::tp_dealloc on thread t: the WeakRef is deleted here
\* on the logic thread, and sent to the logic thread from any other.
tp_dealloc(t, h) ==
  /\ Idle(t)
  /\ py_widget[h]
  /\ Unused(h)
  /\ py_widget' = [py_widget EXCEPT ![h] = FALSE]
  /\ IF ~InLogicThread(t)
       THEN /\ Total(pushed, Threads) < MaxPush
            /\ Len(queue) < MaxQueue
            /\ Enqueue(t, DeleteCall(t, h))
            /\ UNCHANGED widget_
       ELSE /\ widget_' = [widget_ EXCEPT ![h] = NoWeakRef]
            /\ UNCHANGED <<queue, pushed>>
  /\ last' = [op |-> "tp_dealloc", thread |-> t, h |-> h,
              deferred |-> ~InLogicThread(t)]
  /\ UNCHANGED <<live, incarnation, get_, begun, finished, weakRest>>

\* The logic loop runs the oldest runnable, a delete sent by tp_dealloc.
RunDeferredDelete ==
  /\ Idle("logic")
  /\ executing["logic"] = NoCall
  /\ queue # <<>>
  /\ LET c == Head(queue)
     IN  /\ c.mode = "delete"
         /\ widget_' = [widget_ EXCEPT ![c.w] = NoWeakRef]
         /\ begun' = [begun EXCEPT ![c.from] = @ + 1]
         /\ finished' = [finished EXCEPT ![c.from] = @ + 1]
         /\ last' = [op |-> "delete", thread |-> "logic", h |-> c.w]
  /\ queue' = Tail(queue)
  /\ UNCHANGED <<live, incarnation, py_widget, get_, pushed, weakRest>>

\* The engine destroys the Widget at w on thread t.
EngineDestroyWidget(t, w) ==
  /\ Idle(t)
  /\ live[w]
  /\ DestroyWidget(t, w)
  /\ last' = [op |-> "~Widget", thread |-> t, w |-> w]
  /\ UNCHANGED <<incarnation, py_widget, queue, pushed, begun, finished,
                 weakRest>>

\* The app has been started and Logic::ApplyAppConfig has run; there are no
\* widgets yet.
WeakSpecInit ==
  /\ WeakInit
  /\ TimerInit
  /\ ImportInit
  /\ LockInit
  /\ PlusInit
  /\ called_start_app_ = TRUE
  /\ app_running_ = TRUE
  /\ app_mode_ = AppModeEmpty
  /\ event_loop_ = TRUE
  /\ queue = <<>>
  /\ executing = [t \in Threads |-> NoCall]
  /\ context_ref = nullptr
  /\ ssc = <<>>
  /\ unwinding = FALSE
  /\ pushed = [t \in Threads |-> IF t = "main" THEN 1 ELSE 0]
  /\ begun = pushed
  /\ finished = pushed
  /\ ob_refcnt = [p \in PyObjs |-> 0]
  /\ owned = [p \in PyObjs |-> 0]
  /\ obj_ = [r \in Refs |-> nullptr]
  /\ constructed = [r \in Refs |-> FALSE]
  /\ last = [op |-> "init"]
  /\ LifeInit
  /\ ConsoleInit
  /\ SessionInit
  /\ EnumInit
  /\ CommitInit

WeakNext ==
  \/ \E w \in Widgets : NewWidget(w)
  \/ \E t \in Threads, h \in PyWidgets : NewPythonWidget(t, h)
  \/ \E t \in Threads, h \in PyWidgets, w \in WidgetPtrs : Create(t, h, w)
  \/ \E t \in Threads, h \in PyWidgets, m \in {"GetWidget", "Exists"} :
       MethodCall(t, h, m)
  \/ \E t \in Threads : GetWidget(t)
  \/ \E t \in Threads : WidgetExists(t)
  \/ \E t \in Threads, h \in PyWidgets, ignore_missing \in BOOLEAN,
        has_parent \in BOOLEAN :
       WidgetDelete(t, h, ignore_missing, has_parent)
  \/ \E t \in Threads, w \in Widgets : EngineDestroyWidget(t, w)
  \/ \E t \in Threads, h \in PyWidgets : tp_dealloc(t, h)
  \/ RunDeferredDelete

SpecWeak == WeakSpecInit /\ [][WeakNext]_vars

\* C2: a weak reference is live or gone and nothing else: what it gives is
\* nullptr or the Widget it was made to refer to, still alive; and once that
\* Widget has been destroyed, by any thread, GetWidget throws and Exists is
\* False, also when a new Widget lives at the same address.
C2_WeakRefLiveOrGone ==
  /\ \A h \in PyWidgets :
       widget_[h].allocated =>
         LET p == WeakRefGet(widget_, h)
         IN  IF p = nullptr THEN TRUE
             ELSE live[p] /\ widget_[h].bound = <<p, incarnation[p]>>
  /\ last.op \in {"GetWidget", "Exists"} =>
       /\ last.found = last.bound_live
       /\ last.threw = (last.op = "GetWidget" /\ ~last.bound_live)

\* Exists said False for a reference whose Widget was destroyed, while a new
\* Widget lives at the address the old one had.
C2_Witness ==
  /\ last.op = "Exists"
  /\ ~last.found
  /\ last.bound # <<>>
  /\ live[last.bound[1]]

MaxTimers == 2

\* How far each clock runs, in milliseconds.
MaxTime == 1

\* The `time` arguments of the model, in half milliseconds: -1 is -0.0005 s.
Lengths == {-1, 0, 3}

\* static_cast<millisecs_t>(length * 1000.0): the fraction is dropped,
\* towards zero.
ToMillisecs(length) ==
  IF length >= 0 THEN length \div 2 ELSE 0 - ((0 - length) \div 2)

\* Context::ContextAllowsDefaultTimerTypes: context 2 stands for the
\* contexts that have timer types of their own.
ContextAllowsDefaultTimerTypes(c) == c # 2

\* BasePython::EnsureContextAllowsDefaultTimerTypes: whether it throws.
EnsureContextAllowsDefaultTimerTypes ==
  IF context_ref = nullptr THEN FALSE
  ELSE ~ContextAllowsDefaultTimerTypes(context_ref)

\* A timer: the function that made it, its time base, its length and
\* expiry in milliseconds, whether it repeats, the context its
\* PythonContextCallRunnable keeps, how often it has run, and whether it is
\* still registered.
Timer(api, base, now, length, repeat) ==
  [api |-> api, base |-> base, length |-> length, expires |-> now + length,
   repeat |-> repeat, ctx |-> context_ref, runs |-> 0, active |-> TRUE]

\* Logic::NewAppTimer(length, repeat, runnable)
NewAppTimer(ts, api, length, repeat) ==
  Append(ts, Timer(api, "app", app_time, length, repeat))

\* Logic::NewDisplayTimer(length, repeat, runnable)
NewDisplayTimer(ts, api, length, repeat) ==
  Append(ts, Timer(api, "display", display_time, length, repeat))

timerRest == <<owned, obj_, constructed, weakVars, loopVars, importVars,
              lockVars,
              plusVars,
              lifeVars,
              consoleVars,
              sessionVars,
              enumVars,
              commitVars>>

\* What a call of apptimer or displaytimer did.
TimerRecord(api, t, length, why) ==
  [op |-> api, thread |-> t, length |-> length, threw |-> why # "-",
   why |-> why, registered |-> Len(timers') > Len(timers)]

\* Why the checks at the head of apptimer and displaytimer throw for thread
\* t and `time` length; "-" when they pass.
TimerChecks(t, length) ==
  IF ~InLogicThread(t) THEN "precondition"
  ELSE IF EnsureContextAllowsDefaultTimerTypes THEN "context"
  ELSE IF length < 0 THEN "value"
  ELSE "-"


\* What apptimer and displaytimer do with the timer list: nothing when a
\* check throws, else the new timer is added and holds call_obj.
Register(t, api, length, why, new) ==
  /\ IF why # "-"
       THEN UNCHANGED <<timers, ob_refcnt>>
       ELSE /\ timers' = new
            /\ ob_refcnt' = Py_INCREF(ob_refcnt, call_obj)
  /\ last' = TimerRecord(api, t, length, why)
  /\ UNCHANGED <<app_time, display_time, timerRest>>

\* An apptimer whose timer repeats.
PyAppTimerRepeats(t, length) ==
  /\ CanCall(t)
  /\ Len(timers) < MaxTimers
  /\ Register(t, "apptimer", length, TimerChecks(t, length),
              NewDisplayTimer(timers, "apptimer", ToMillisecs(length), TRUE))

\* babase.apptimer(time, call) on thread t.
PyAppTimer(t, length) ==
  /\ CanCall(t)
  /\ Len(timers) < MaxTimers
  /\ Register(t, "apptimer", length, TimerChecks(t, length),
              NewDisplayTimer(timers, "apptimer", ToMillisecs(length), FALSE))

\* A displaytimer that takes a negative time as 0.
PyDisplayTimerClamps(t, length) ==
  /\ CanCall(t)
  /\ Len(timers) < MaxTimers
  /\ Register(t, "displaytimer", length,
              TimerChecks(t, IF length < 0 THEN 0 ELSE length),
              NewAppTimer(timers, "displaytimer",
                          ToMillisecs(IF length < 0 THEN 0 ELSE length), FALSE))

\* babase.displaytimer(time, call) on thread t.
PyDisplayTimer(t, length) ==
  /\ CanCall(t)
  /\ Len(timers) < MaxTimers
  /\ Register(t, "displaytimer", length, TimerChecks(t, length),
              NewAppTimer(timers, "displaytimer", ToMillisecs(length), FALSE))

\* App-time passes.
AdvanceAppTime ==
  /\ app_time < MaxTime
  /\ app_time' = app_time + 1
  /\ last' = [op |-> "apptime"]
  /\ UNCHANGED <<timers, display_time, ob_refcnt, timerRest>>

\* Display-time passes.
AdvanceDisplayTime ==
  /\ display_time < MaxTime
  /\ display_time' = display_time + 1
  /\ last' = [op |-> "displaytime"]
  /\ UNCHANGED <<timers, app_time, ob_refcnt, timerRest>>

\* The time of time base `base`.
Now(base) == IF base = "app" THEN app_time ELSE display_time

\* The logic loop runs timer i, which has expired: its callable is called;
\* a repeating timer is set to expire again, any other is removed and lets
\* go of its callable.
TimerFire(i) ==
  /\ i <= Len(timers)
  /\ event_loop_
  /\ executing["logic"] = NoCall
  /\ timers[i].active
  /\ Now(timers[i].base) >= timers[i].expires
  /\ timers' = [timers EXCEPT ![i] =
       IF @.repeat
         THEN [@ EXCEPT !.runs = @ + 1,
                        !.expires = Now(timers[i].base) + timers[i].length]
         ELSE [@ EXCEPT !.runs = @ + 1, !.active = FALSE]]
  /\ ob_refcnt' = IF timers[i].repeat THEN ob_refcnt
                  ELSE Py_DECREF(ob_refcnt, call_obj)
  /\ last' = [op |-> "fire", i |-> i, ctx |-> timers[i].ctx]
  /\ UNCHANGED <<app_time, display_time, timerRest>>

\* The logic thread and its timers: the call the app starts with sets
\* contexts and creates timers, other threads try to; time passes and the
\* loop runs the timers that expire.
TimerNext ==
  \/ StartAppBegin
  \/ StartAppEnd
  \/ RunnableBegin
  \/ \E c \in Contexts : BodySetCurrentContext(c)
  \/ RunnableEnd
  \/ \E t \in Threads, length \in Lengths : PyAppTimer(t, length)
  \/ \E t \in Threads, length \in Lengths : PyDisplayTimer(t, length)
  \/ AdvanceAppTime
  \/ AdvanceDisplayTime
  \/ \E i \in 1..MaxTimers : TimerFire(i)

SpecTimer == LoopSpecInit /\ [][TimerNext]_vars

\* C12: apptimer and displaytimer given a negative time throw and register
\* no timer; no timer ever comes from a negative time.
C12_NegativeTimeIsAnError ==
  /\ (last.op \in {"apptimer", "displaytimer"} /\ last.length < 0) =>
       (last.threw /\ ~last.registered)
  /\ last.op \in {"apptimer", "displaytimer"} =>
       (last.registered <=> (~last.threw /\ last.length >= 0))

\* displaytimer was called on the logic thread, in a context that allows
\* timers, with a time of -0.0005 s, and threw for that.
C12_Witness ==
  /\ last.op = "displaytimer"
  /\ last.length = -1
  /\ last.why = "value"
  /\ ~last.registered

\* C13: apptimer makes its timer on the app-time base and displaytimer
\* makes its timer on the display-time base.
C13_TimerOnItsOwnTimeBase ==
  \A i \in 1..Len(timers) :
    /\ timers[i].api = "apptimer" => timers[i].base = "app"
    /\ timers[i].api = "displaytimer" => timers[i].base = "display"

\* C14: a timer made by apptimer or displaytimer runs at most once, and once
\* made it is never removed before it runs nor changed: nothing but its one
\* run alters it.
C14_OneShotNeverCancelled ==
  [][/\ Len(timers') >= Len(timers)
     /\ \A i \in 1..Len(timers) :
          \/ timers'[i] = timers[i]
          \/ /\ timers[i].active
             /\ timers[i].runs = 0
             /\ timers'[i] = [timers[i] EXCEPT !.runs = 1, !.active = FALSE]
    ]_vars

\* A timer has run, and time has passed beyond its expiry since.
C14_Witness ==
  /\ last.op = "apptime"
  /\ \E i \in 1..Len(timers) :
       /\ timers[i].runs = 1
       /\ ~timers[i].active
       /\ timers[i].length = 0
       /\ Now(timers[i].base) > timers[i].expires

\* --------------------------------------- the table of script objects

\* BasePython::ObjID: the slots of BasePython::objs_ the model has; each
\* slot is a PythonRef.
kPreEnv == "a"

kConfig == "b"

\* PythonObjectSet::Store(id, pyobj): the slot takes over the reference
\* the caller hands in.
Store(s, id, pyobj) == Steal(s, id, pyobj)

\* BasePython::StorePreEnv(obj)
StorePreEnv(s, obj) == Store(s, kPreEnv, obj)

\* PythonRef::NewRef: a new reference to what the wrapper holds.
NewRef(s, r) == [s EXCEPT !.rc = Py_INCREF(s.rc, s.o[r])]

\* The script calls _babase.pre_env(): the first time the dict is built
\* (at env) and stored; the caller gets a new reference to what is stored.
PyPreEnv(env) ==
  /\ UNCHANGED nonRefVars
  /\ constructed[kPreEnv]
  /\ IF Exists(RefState, kPreEnv)
       THEN owned[obj_[kPreEnv]] < MaxOwned
       ELSE ob_refcnt[env] = 0
  /\ LET built == [RefState EXCEPT !.rc = Py_INCREF(ob_refcnt, env)]
         s1 == IF Exists(RefState, kPreEnv) THEN RefState
                                            ELSE StorePreEnv(built, env)
         s2 == NewRef(s1, kPreEnv)
     IN  /\ Apply(s2)
         /\ owned' = [owned EXCEPT ![s2.o[kPreEnv]] = @ + 1]
         /\ last' = Log("pre_env", kPreEnv, "-", s2.o[kPreEnv],
                        obj_[kPreEnv], s2)
  /\ UNCHANGED constructed

\* What BasePython::ReadConfig leaves, where config is the app's config
\* dict: GetAttr gives a temporary PythonRef with a reference of its own,
\* the pointer it holds is handed to Store, and the temporary is destroyed.
ReadConfigResult(config) ==
  LET attr == [RefState EXCEPT !.rc = Py_INCREF(ob_refcnt, config)]
      s1 == Store(attr, kConfig, config)
  IN  [s1 EXCEPT !.rc = Py_DECREF(s1.rc, config)]

\* BasePython::ReadConfig called on its own.
ReadConfig(config) ==
  /\ UNCHANGED nonRefVars
  /\ constructed[kConfig]
  /\ ob_refcnt[config] >= 1
  /\ owned[config] >= 1
  /\ Apply(ReadConfigResult(config))
  /\ last' = Log("ReadConfig", kConfig, "-", config, obj_[kConfig],
                 ReadConfigResult(config))
  /\ UNCHANGED <<owned, constructed>>

\* The table exists and is empty; the script layer has made no object yet.
StoreInit ==
  /\ LoopInit
  /\ WeakInit
  /\ TimerInit
  /\ ImportInit
  /\ LockInit
  /\ PlusInit
  /\ LifeInit
  /\ ConsoleInit
  /\ SessionInit
  /\ EnumInit
  /\ CommitInit
  /\ ob_refcnt = [p \in PyObjs |-> 0]
  /\ owned = [p \in PyObjs |-> 0]
  /\ obj_ = [r \in Refs |-> nullptr]
  /\ constructed = [r \in Refs |-> TRUE]
  /\ last = [op |-> "init", ref |-> "-", src |-> "-", arg |-> nullptr,
             old |-> nullptr, threw |-> FALSE]

\* The script layer makes, takes and drops references; pre_env and
\* ReadConfig fill the table; the table's slots are destroyed at the end.
StoreNext ==
  \/ \E p \in PyObjs : PyNewReference(p)
  \/ \E p \in PyObjs : PyIncref(p)
  \/ \E p \in PyObjs : PyDecref(p)
  \/ \E p \in PyObjs : PyPreEnv(p)
  \/ \E p \in PyObjs : ReadConfig(p)
  \/ \E r \in Refs : Destruct(r)

SpecStore == StoreInit /\ [][StoreNext]_vars

\* C16: Store consumes the reference its caller hands in, so the references
\* to an object that no caller owns are exactly those the table's slots
\* hold, one per slot: each is released once, when its slot lets go.
C16_StoreConsumesCallersReference ==
  \A p \in PyObjs :
    ob_refcnt[p] - owned[p] = Cardinality(Holders(p))

\* ------------------------------------------- the module-import hooks

\* One step of a hook: a call, or the import of another feature-set.
Call(name) == [call |-> name, arg |-> "-"]

Import(fs) == [call |-> "Import", arg |-> fs]

\* A variant of the hooks in which the base feature-set marks the end of
\* its module before it has imported its script objects.
OnModuleExecMarksEarly(fs) ==
  CASE fs = "base" ->
         << Import("core"), Call("BootLog"), Call("ApplyBaEnvConfig"),
            Call("new"), Call("AddPythonClasses"),
            Call("StoreOnPythonModule"), Call("MarkReachedEndOfModule"),
            Call("ImportPythonObjs"),
            Import("classic"), Import("ui_v1"),
            Call("RunBaEnvOnBaBaseImport"),
            Call("EnablePythonLoggingCalls"), Call("ReadConfig"),
            Call("BootLog") >>
    [] fs = "scene_v1" ->
         << Import("core"), Call("BootLog"), Call("new"),
            Call("StoreOnPythonModule"), Call("ImportPythonObjs"),
            Import("base"), Import("classic"),
            Call("AddPythonClasses"), Call("BootLog") >>
    [] fs = "ui_v1" ->
         << Import("core"), Call("BootLog"), Call("new"),
            Call("AddPythonClasses"), Call("StoreOnPythonModule"),
            Call("ImportPythonObjs"), Import("base"), Call("BootLog") >>

\* BaseFeatureSet::OnModuleExec, SceneV1FeatureSet::OnModuleExec and
\* UIV1FeatureSet::OnModuleExec: the statements of each, in order.
OnModuleExec(fs) ==
  CASE fs = "base" ->
         << Import("core"), Call("BootLog"), Call("ApplyBaEnvConfig"),
            Call("new"), Call("AddPythonClasses"),
            Call("StoreOnPythonModule"), Call("ImportPythonObjs"),
            Import("classic"), Import("ui_v1"),
            Call("RunBaEnvOnBaBaseImport"),
            Call("EnablePythonLoggingCalls"), Call("ReadConfig"),
            Call("MarkReachedEndOfModule"), Call("BootLog") >>
    [] fs = "scene_v1" ->
         << Import("core"), Call("BootLog"), Call("new"),
            Call("StoreOnPythonModule"), Call("ImportPythonObjs"),
            Import("base"), Import("classic"),
            Call("AddPythonClasses"), Call("BootLog") >>
    [] fs = "ui_v1" ->
         << Import("core"), Call("BootLog"), Call("new"),
            Call("AddPythonClasses"), Call("StoreOnPythonModule"),
            Call("ImportPythonObjs"), Import("base"), Call("BootLog") >>

\* The feature-set whose hook is running.
Current == importing[Len(importing)]

\* The hook of fs has run to its end.
HookFinished(fs) == hook_pc[fs] > Len(OnModuleExec(fs))

importRest == <<owned, constructed, loopVars, weakVars, timerVars,
               lockVars,
              plusVars,
              lifeVars,
              consoleVars,
              sessionVars,
              enumVars,
              commitVars>>

\* The script imports a feature-set's module for the first time, no other
\* import being under way: its hook starts.
ImportModule(fs) ==
  /\ importing = <<>>
  /\ hook_pc[fs] = 0
  /\ importing' = <<fs>>
  /\ hook_pc' = [hook_pc EXCEPT ![fs] = 1]
  /\ UNCHANGED <<done, ob_refcnt, obj_, last, importRest>>

\* The running hook makes its next call. ReadConfig stores the app's config
\* dict, an object the script layer holds, in the table.
HookCall ==
  /\ importing # <<>>
  /\ hook_pc[Current] <= Len(OnModuleExec(Current))
  /\ LET fs == Current
         step == OnModuleExec(fs)[hook_pc[fs]]
     IN  /\ step.call # "Import"
         /\ hook_pc' = [hook_pc EXCEPT ![fs] = @ + 1]
         /\ done' = [done EXCEPT ![fs] = Append(@, step.call)]
         /\ IF step.call = "ReadConfig"
              THEN \E config \in PyObjs :
                     /\ ob_refcnt[config] >= 1
                     /\ owned[config] >= 1
                     /\ Apply(ReadConfigResult(config))
                     /\ last' = Log("ReadConfig", kConfig, "-", config,
                                    obj_[kConfig], ReadConfigResult(config))
              ELSE UNCHANGED <<ob_refcnt, obj_, last>>
  /\ UNCHANGED <<importing, importRest>>

\* The running hook imports another feature-set (X::Import, which goes
\* through the script import of X's module): a module not imported before
\* runs its hook now, one imported before (its hook finished or still
\* running further out) is only looked up.
HookImport ==
  /\ importing # <<>>
  /\ hook_pc[Current] <= Len(OnModuleExec(Current))
  /\ LET fs == Current
         step == OnModuleExec(fs)[hook_pc[fs]]
         first == IF step.arg \in FeatureSets THEN hook_pc[step.arg] = 0
                                              ELSE FALSE
     IN  /\ step.call = "Import"
         /\ done' = [done EXCEPT ![fs] = Append(@, step.call)]
         /\ IF first
              THEN /\ hook_pc' = [hook_pc EXCEPT ![fs] = @ + 1,
                                                 ![step.arg] = 1]
                   /\ importing' = Append(importing, step.arg)
              ELSE /\ hook_pc' = [hook_pc EXCEPT ![fs] = @ + 1]
                   /\ UNCHANGED importing
  /\ UNCHANGED <<ob_refcnt, obj_, last, importRest>>

\* The running hook returns to whoever imported its module.
HookReturn ==
  /\ importing # <<>>
  /\ HookFinished(Current)
  /\ importing' = SubSeq(importing, 1, Len(importing) - 1)
  /\ UNCHANGED <<hook_pc, done, ob_refcnt, obj_, last, importRest>>

\* The script imports the modules in any order and makes objects.
ImportNext ==
  \/ \E fs \in FeatureSets : ImportModule(fs)
  \/ HookCall
  \/ HookImport
  \/ HookReturn
  \/ \E p \in PyObjs : PyNewReference(p)

SpecImport == StoreInit /\ [][ImportNext]_vars

\* Where in the steps a hook has taken the call stands first; 0 when the
\* hook has not made it.
Pos(fs, call) ==
  IF \E i \in 1..Len(done[fs]) : done[fs][i] = call
    THEN CHOOSE i \in 1..Len(done[fs]) :
           /\ done[fs][i] = call
           /\ \A j \in 1..(i - 1) : done[fs][j] # call
    ELSE 0

\* The steps of the hook of fs that the four steps of the contract name, in
\* the order they were taken.
ContractSteps(fs) ==
  SelectSeq(done[fs], LAMBDA c : c \in {"new", "AddPythonClasses",
                                        "ImportPythonObjs",
                                        "MarkReachedEndOfModule"})

\* C17 as stated: a hook that has run to its end established the singleton,
\* registered the types, populated the table and signalled 'module fully
\* loaded', in this order.
C17_HookStepsInOrder ==
  \A fs \in FeatureSets :
    HookFinished(fs) =>
      ContractSteps(fs) = << "new", "AddPythonClasses", "ImportPythonObjs",
                             "MarkReachedEndOfModule" >>

\* C17 (amended): a hook establishes the native singleton before it
\* registers types or populates the table, and by its end has done all
\* three; which of types and table comes first differs between
\* feature-sets. Only the base feature-set signals 'module fully loaded',
\* and a signal is never given before the table of that feature-set is
\* populated and its types are registered.
C17_SingletonFirstLoadedLast ==
  \A fs \in FeatureSets :
    /\ Pos(fs, "AddPythonClasses") > 0 =>
         Pos(fs, "new") \in 1..(Pos(fs, "AddPythonClasses") - 1)
    /\ Pos(fs, "ImportPythonObjs") > 0 =>
         Pos(fs, "new") \in 1..(Pos(fs, "ImportPythonObjs") - 1)
    /\ HookFinished(fs) =>
         /\ Pos(fs, "AddPythonClasses") > 0
         /\ Pos(fs, "ImportPythonObjs") > 0
         /\ Pos(fs, "MarkReachedEndOfModule") > 0 <=> fs = "base"
    /\ Pos(fs, "MarkReachedEndOfModule") > 0 =>
         /\ Pos(fs, "ImportPythonObjs")
              \in 1..(Pos(fs, "MarkReachedEndOfModule") - 1)
         /\ Pos(fs, "AddPythonClasses")
              \in 1..(Pos(fs, "MarkReachedEndOfModule") - 1)

\* Every hook has run to its end: base with the signal given, scene_v1
\* with its table populated before its types were registered.
C17_Witness ==
  /\ \A fs \in FeatureSets : HookFinished(fs)
  /\ importing = <<>>
  /\ Pos("base", "MarkReachedEndOfModule") > Pos("base", "ImportPythonObjs")
  /\ Pos("scene_v1", "ImportPythonObjs") \in
       1..(Pos("scene_v1", "AddPythonClasses") - 1)

\* ------------------------------------ creating a Widget handle off-thread

\* tp_new has just failed on a thread other than the logic thread.
FailedOffThread ==
  /\ last.op = "tp_new"
  /\ IF last.op = "tp_new" THEN last.thread # "logic" /\ last.threw
                           ELSE FALSE

\* C18 as stated: creating a Widget handle outside the logic thread never
\* yields an object and is a hard stop: nothing runs after the failure.
C18_WrongThreadCreationIsHardStop ==
  /\ [](IF last.op = "tp_new"
          THEN last.thread # "logic" =>
                 /\ last.threw
                 /\ ~py_widget[last.h]
          ELSE TRUE)
  /\ [][~FailedOffThread]_vars

\* C18 (amended): creating a Widget handle outside the logic thread fails
\* with an exception raised to the calling script: it never yields an
\* object, and no weak reference is allocated for one; the exception is an
\* ordinary one, after which the program goes on.
C18_WrongThreadCreationThrows ==
  IF last.op = "tp_new"
    THEN last.thread # "logic" =>
           /\ last.threw
           /\ ~py_widget[last.h]
           /\ ~widget_[last.h].allocated
    ELSE TRUE

C18_Witness == FailedOffThread /\ ~py_widget[last.h]

\* --------------------------- the script runtime's lock and the queue lock

\* The threads that are inside a push: after the queue lock, or holding it.
Pushing == {t \in Threads : at[t] \in {"push_wait", "push_locked"}}

lockRest == <<ob_refcnt, owned, obj_, constructed, weakVars, timerVars,
              importVars, called_start_app_, app_running_, app_mode_,
              event_loop_, context_ref, ssc, unwinding, begun, finished,
              plusVars,
              lifeVars,
              consoleVars,
              sessionVars,
              enumVars,
              commitVars>>

\* A thread other than the logic thread starts to run script code: it takes
\* the lock of the script runtime.
ScriptBegin(t) ==
  /\ t # "logic"
  /\ at[t] = "idle"
  /\ gil = "none"
  /\ gil' = t
  /\ at' = [at EXCEPT ![t] = "script"]
  /\ last' = [op |-> "ScriptBegin", thread |-> t]
  /\ UNCHANGED <<queue_lock, queue, executing, pushed, lockRest>>

\* ... and stops running script code.
ScriptEnd(t) ==
  /\ t # "logic"
  /\ at[t] = "script"
  /\ gil' = "none"
  /\ at' = [at EXCEPT ![t] = "idle"]
  /\ last' = [op |-> "ScriptEnd", thread |-> t]
  /\ UNCHANGED <<queue_lock, queue, executing, pushed, lockRest>>

\* Script code on thread t calls pushcall: PyPushCall, which holds the
\* script runtime's lock (assert(Python::HaveGIL())), calls PushCall on the
\* logic EventLoop, which goes after the queue lock.
PushCallRequest(t) ==
  /\ at[t] = "script"
  /\ gil = t
  /\ Total(pushed, Threads) + Cardinality(Pushing) < MaxPush
  /\ at' = [at EXCEPT ![t] = "push_wait"]
  /\ last' = [op |-> "PushCallRequest", thread |-> t]
  /\ UNCHANGED <<gil, queue_lock, queue, executing, pushed, lockRest>>

\* EventLoop::PushCall gets the queue lock.
PushCallLock(t) ==
  /\ at[t] = "push_wait"
  /\ queue_lock = "none"
  /\ queue_lock' = t
  /\ at' = [at EXCEPT ![t] = "push_locked"]
  /\ last' = [op |-> "PushCallLock", thread |-> t]
  /\ UNCHANGED <<gil, queue, executing, pushed, lockRest>>

\* A pushcall that, having queued the call, waits for the logic loop to
\* have run it, the script runtime's lock still held.
PushCallAwaitsCompletion(t) ==
  /\ at[t] = "push_locked"
  /\ LET c == Runnable("other_thread", t, TRUE, nullptr, FALSE, nullptr, TRUE)
     IN  /\ queue' = EventLoopPushCall(queue, c)
         /\ last' = [op |-> "PushCallReturn", thread |-> t, call |-> c]
  /\ pushed' = [pushed EXCEPT ![t] = @ + 1]
  /\ queue_lock' = "none"
  /\ at' = [at EXCEPT ![t] = "await"]
  /\ UNCHANGED <<gil, executing, lockRest>>

\* EventLoop::PushCall appends the call and lets go of the queue lock;
\* PyPushCall returns None to the script, which runs on.
PushCallReturn(t) ==
  /\ at[t] = "push_locked"
  /\ LET c == Runnable("other_thread", t, TRUE, nullptr, FALSE, nullptr, TRUE)
     IN  /\ queue' = EventLoopPushCall(queue, c)
         /\ last' = [op |-> "PushCallReturn", thread |-> t, call |-> c]
  /\ pushed' = [pushed EXCEPT ![t] = @ + 1]
  /\ queue_lock' = "none"
  /\ at' = [at EXCEPT ![t] = "script"]
  /\ UNCHANGED <<gil, executing, lockRest>>

\* The logic loop gets the queue lock to look for work.
LoopLock ==
  /\ at["logic"] = "idle"
  /\ queue_lock = "none"
  /\ queue_lock' = "logic"
  /\ at' = [at EXCEPT !["logic"] = "loop_locked"]
  /\ last' = [op |-> "LoopLock", thread |-> "logic"]
  /\ UNCHANGED <<gil, queue, executing, pushed, lockRest>>

\* ... takes the oldest call off the queue, if there is one, and lets go of
\* the queue lock before running it.
LoopTake ==
  /\ at["logic"] = "loop_locked"
  /\ IF queue = <<>>
       THEN /\ at' = [at EXCEPT !["logic"] = "idle"]
            /\ UNCHANGED <<queue, executing>>
       ELSE /\ at' = [at EXCEPT !["logic"] = "run_wait"]
            /\ executing' = [executing EXCEPT !["logic"] = Head(queue)]
            /\ queue' = Tail(queue)
  /\ queue_lock' = "none"
  /\ last' = [op |-> "LoopTake", thread |-> "logic"]
  /\ UNCHANGED <<gil, pushed, lockRest>>

\* The logic thread takes the script runtime's lock to run the call it
\* took (PythonRef::Call).
CallBegin ==
  /\ at["logic"] = "run_wait"
  /\ gil = "none"
  /\ gil' = "logic"
  /\ at' = [at EXCEPT !["logic"] = "script"]
  /\ last' = [op |-> "CallBegin", thread |-> "logic"]
  /\ UNCHANGED <<queue_lock, queue, executing, pushed, lockRest>>

\* The call has run: the logic thread lets go of the script runtime's lock.
CallEnd ==
  /\ at["logic"] = "script"
  /\ gil' = "none"
  /\ at' = [at EXCEPT !["logic"] = "idle"]
  /\ executing' = [executing EXCEPT !["logic"] = NoCall]
  /\ last' = [op |-> "CallEnd", thread |-> "logic"]
  /\ UNCHANGED <<queue_lock, queue, pushed, lockRest>>

\* The app is running, nothing is queued and no lock is held.
LockSpecInit ==
  /\ WeakInit
  /\ TimerInit
  /\ ImportInit
  /\ LockInit
  /\ PlusInit
  /\ called_start_app_ = TRUE
  /\ app_running_ = TRUE
  /\ app_mode_ = AppModeEmpty
  /\ event_loop_ = TRUE
  /\ queue = <<>>
  /\ executing = [t \in Threads |-> NoCall]
  /\ context_ref = nullptr
  /\ ssc = <<>>
  /\ unwinding = FALSE
  /\ pushed = [t \in Threads |-> 0]
  /\ begun = pushed
  /\ finished = pushed
  /\ ob_refcnt = [p \in PyObjs |-> IF p = call_obj THEN 1 ELSE 0]
  /\ owned = [p \in PyObjs |-> IF p = call_obj THEN 1 ELSE 0]
  /\ obj_ = [r \in Refs |-> nullptr]
  /\ constructed = [r \in Refs |-> FALSE]
  /\ last = [op |-> "init"]
  /\ LifeInit
  /\ ConsoleInit
  /\ SessionInit
  /\ EnumInit
  /\ CommitInit

\* Script threads and the calls the logic loop runs push calls; the loop
\* takes them and runs them.
LockNext ==
  \/ \E t \in Threads : ScriptBegin(t)
  \/ \E t \in Threads : ScriptEnd(t)
  \/ \E t \in Threads : PushCallRequest(t)
  \/ \E t \in Threads : PushCallLock(t)
  \/ \E t \in Threads : PushCallReturn(t)
  \/ LoopLock
  \/ LoopTake
  \/ CallBegin
  \/ CallEnd

SpecLock == LockSpecInit /\ [][LockNext]_vars

\* Thread a cannot go on before thread b has: a is after a lock b holds, or
\* a waits for the logic loop, which b runs, to have run a call.
WaitsFor(a, b) ==
  \/ at[a] = "push_wait" /\ queue_lock = b
  \/ at[a] = "run_wait" /\ gil = b
  \/ at[a] = "await" /\ b = "logic"

\* C19: a pushcall returns to the script with its call still waiting in the
\* queue; no thread that holds the script runtime's lock waits for the
\* logic loop to have run a call; and no two threads wait for each other
\* over the script runtime's lock and the queue lock.
C19_PushCallFireAndForget ==
  /\ IF last.op = "PushCallReturn"
       THEN /\ at[last.thread] = "script"
            /\ queue # <<>>
            /\ queue[Len(queue)] = last.call
            /\ executing["logic"] # last.call
       ELSE TRUE
  /\ \A t \in Threads : gil = t => at[t] # "await"
  /\ \A a, b \in Threads : a # b => ~(WaitsFor(a, b) /\ WaitsFor(b, a))

\* A script thread that holds the script runtime's lock is after the queue
\* lock while the logic loop holds it.
C19_Witness ==
  /\ gil = "main"
  /\ at["main"] = "push_wait"
  /\ queue_lock = "logic"
  /\ queue # <<>>

\* ------------------------------------------------ the plus feature-set

plusRest == <<ob_refcnt, owned, obj_, constructed, loopVars, weakVars,
              timerVars, importVars, lockVars,
              lifeVars,
              consoleVars,
              sessionVars,
              enumVars,
              commitVars>>

\* What the call about plus that thread t is in gives back: Plus() the
\* interface pointer, HavePlus() whether there is one,
\* IsUnmodifiedBlessedBuild() what plus says (taken to be yes) or, without
\* plus, no; asked_plus notes whether plus was asked.
PlusResult(op, t, soft) ==
  [op |-> op, thread |-> t, threw |-> FALSE,
   result |-> IF op = "Plus" THEN soft
              ELSE IF soft # nullptr THEN 1 ELSE 0,
   asked_plus |-> op = "IsUnmodifiedBlessedBuild" /\ soft # nullptr]

\* The first lines of Plus() and HavePlus(): with no import attempt
\* finished yet the thread goes into python->SoftImportPlus(); otherwise the
\* function returns at once.
PlusEnter(op, t) ==
  /\ plus_at[t] = "-"
  /\ IF ~tried_importing_plus_
       THEN /\ plus_at' = [plus_at EXCEPT ![t] = op]
            /\ last' = [op |-> "SoftImportPlus", thread |-> t]
       ELSE /\ last' = PlusResult(op, t, g_plus_soft)
            /\ UNCHANGED plus_at
  /\ UNCHANGED <<plus_installed, tried_importing_plus_, g_plus_soft,
                 plusRest>>

\* BaseFeatureSet::Plus() called on thread t.
Plus(t) ==
  /\ PlusEnter("Plus", t)
  /\ TRUE

\* BaseFeatureSet::HavePlus() called on thread t.
HavePlus(t) ==
  /\ PlusEnter("HavePlus", t)
  /\ TRUE

\* BaseFeatureSet::IsUnmodifiedBlessedBuild() called on thread t: HavePlus()
\* and, with plus there, Plus()->IsUnmodifiedBlessedBuild().
IsUnmodifiedBlessedBuild(t) ==
  /\ PlusEnter("IsUnmodifiedBlessedBuild", t)
  /\ TRUE

\* BaseFeatureSet::PlusDirectSendV1CloudLogs called on thread t: the logs
\* are handed to plus if its interface is known, and dropped otherwise; no
\* import is attempted.
PlusDirectSendV1CloudLogs(t) ==
  /\ plus_at[t] = "-"
  /\ last' = [op |-> "PlusDirectSendV1CloudLogs", thread |-> t,
              sent |-> g_plus_soft # nullptr]
  /\ UNCHANGED <<plusVars, plusRest>>

\* BasePython::SoftImportPlus() returns to the Plus() or HavePlus() that
\* called it, which sets tried_importing_plus_ and returns. The import of an
\* installed _baplus has made the plus interface known; a failed import is
\* ignored.
SoftImportPlusReturns(t) ==
  /\ plus_at[t] # "-"
  /\ \E found \in {"yes", "no"} :
       /\ plus_installed \in {"unknown", found}
       /\ plus_installed' = found
       /\ g_plus_soft' = IF found = "yes" THEN 1 ELSE g_plus_soft
  /\ tried_importing_plus_' = TRUE
  /\ last' = PlusResult(plus_at[t], t, g_plus_soft')
  /\ plus_at' = [plus_at EXCEPT ![t] = "-"]
  /\ UNCHANGED plusRest

\* Any thread asks for the plus feature-set at any time, before the app is
\* started or after.
PlusNext ==
  \/ StartAppBegin
  \/ StartAppEnd
  \/ \E t \in Threads : Plus(t)
  \/ \E t \in Threads : HavePlus(t)
  \/ \E t \in Threads : IsUnmodifiedBlessedBuild(t)
  \/ \E t \in Threads : PlusDirectSendV1CloudLogs(t)
  \/ \E t \in Threads : SoftImportPlusReturns(t)

SpecPlus == LoopSpecInit /\ [][PlusNext]_vars

lifeRest == <<ob_refcnt, owned, obj_, constructed, weakVars, timerVars,
              importVars, lockVars, plusVars,
              consoleVars,
              sessionVars,
              enumVars,
              commitVars>>

\* babase.quit() called on thread t (not a soft or back quit on Android): a
\* call of Logic::Shutdown is pushed to the logic loop.
PyQuit(t) ==
  /\ MayPush(t)
  /\ Enqueue(t, Runnable("shutdown", t, FALSE, nullptr, FALSE, nullptr,
                         FALSE))
  /\ last' = PushRecord(t, "shutdown", FALSE)
  /\ UNCHANGED <<loopRest, ob_refcnt, refRest>>

\* Logic::Shutdown, run by the logic loop: the logic loop shuts down.
\* Nothing in BaseFeatureSet takes note of it: app_running_ stays as it is.
LogicShutdown ==
  /\ InBody
  /\ executing["logic"].call.mode = "shutdown"
  /\ ~logic_shutdown
  /\ logic_shutdown' = TRUE
  /\ last' = [op |-> "Shutdown"]
  /\ UNCHANGED <<start_pc, started, called_run_app_to_completion_, loopVars,
                 lifeRest>>

\* The app is started, logs are written on any thread, and the script asks
\* the app to quit.
ShutdownNext ==
  \/ StartAppBegin
  \/ StartAppEnd
  \/ \E t \in Threads : V1CloudLog(t)
  \/ \E t \in Threads : PyQuit(t)
  \/ RunnableBegin
  \/ LogicShutdown
  \/ RunnableEnd

SpecShutdown == LoopSpecInit /\ [][ShutdownNext]_vars

\* C24: a call of an object of the table is pushed to the logic loop only
\* while the app is running: not before StartApp has marked it running, and
\* not after the logic loop has shut down.
C24_ObjCallOnlyWhileAppRuns ==
  IF last.op = "push"
    THEN last.mode = "objcall" => app_running_ /\ ~logic_shutdown
    ELSE TRUE

\* ---------------------------------------------- StartApp, step by step

\* g_core->InMainThread() on thread t.
InMainThread(t) == t = "main"

\* Where StartApp stands once every subsystem is started, once the app is
\* marked running, and where the main thread sits in its own event loop.
AtSetRunning == Len(Subsystems) + 1

AtPushApplyAppConfig == Len(Subsystems) + 2

InRunEventLoop == Len(Subsystems) + 3

\* The main thread is not inside StartApp or RunAppToCompletion; other
\* threads can call at any time.
Free2Call(t) == IF InMainThread(t) THEN start_pc = 0 ELSE TRUE

startRest == <<app_mode_, executing, context_ref, ssc, unwinding, begun,
               finished, logic_shutdown, lifeRest>>

\* BaseFeatureSet::StartApp() called on thread t: its preconditions, and
\* called_start_app_ = true.
StartApp(t) ==
  /\ Free2Call(t)
  /\ IF InMainThread(t) /\ ~called_start_app_
       THEN /\ called_start_app_' = TRUE
            /\ start_pc' = 1
            /\ last' = [op |-> "StartAppCall", thread |-> t, threw |-> FALSE]
       ELSE \* BA_PRECONDITION throws
            /\ last' = [op |-> "StartAppCall", thread |-> t, threw |-> TRUE]
            /\ UNCHANGED <<called_start_app_, start_pc>>
  /\ UNCHANGED <<started, called_run_app_to_completion_, app_running_,
                 event_loop_, queue, pushed, startRest>>

\* StartApp calls the next subsystem's OnMainThreadStartApp; that of logic
\* brings up the logic thread and its EventLoop.
OnMainThreadStartApp ==
  /\ start_pc \in 1..Len(Subsystems)
  /\ started' = Append(started, Subsystems[start_pc])
  /\ event_loop_' = IF Subsystems[start_pc] = "logic" THEN TRUE
                                                      ELSE event_loop_
  /\ start_pc' = start_pc + 1
  /\ last' = [op |-> "OnMainThreadStartApp", subsystem |-> Subsystems[start_pc]]
  /\ UNCHANGED <<called_start_app_, called_run_app_to_completion_,
                 app_running_, queue, pushed, startRest>>

\* A StartApp that marks the app running before the subsystems are started.
StartAppSetRunningFirst ==
  /\ start_pc \in 1..AtSetRunning
  /\ IF start_pc = AtSetRunning THEN TRUE ELSE ~app_running_
  /\ app_running_' = TRUE
  /\ start_pc' = IF start_pc = AtSetRunning THEN AtPushApplyAppConfig
                                            ELSE start_pc
  /\ last' = [op |-> "app_running_"]
  /\ UNCHANGED <<called_start_app_, called_run_app_to_completion_, started,
                 event_loop_, queue, pushed, startRest>>

\* StartApp: app_running_ = true.
StartAppSetRunning ==
  /\ start_pc = AtSetRunning
  /\ app_running_' = TRUE
  /\ start_pc' = AtPushApplyAppConfig
  /\ last' = [op |-> "app_running_"]
  /\ UNCHANGED <<called_start_app_, called_run_app_to_completion_, started,
                 event_loop_, queue, pushed, startRest>>

\* StartApp, its last step: Logic::ApplyAppConfig is pushed to the logic
\* loop. StartApp returns: to its caller, or to RunAppToCompletion, which
\* goes into the main thread's event loop and stays there.
StartAppPushApplyAppConfig ==
  /\ start_pc = AtPushApplyAppConfig
  /\ Enqueue("main", Runnable("native", "main", FALSE, nullptr, FALSE,
                              nullptr, FALSE))
  /\ start_pc' = IF called_run_app_to_completion_ THEN InRunEventLoop ELSE 0
  /\ last' = PushRecord("main", "native", FALSE)
  /\ UNCHANGED <<called_start_app_, called_run_app_to_completion_, started,
                 app_running_, event_loop_, startRest>>

\* BaseFeatureSet::RunAppToCompletion() called on thread t (the app manages
\* the event loop): its preconditions, then StartApp unless that was called
\* before, then the main thread's event loop.
RunAppToCompletion(t) ==
  /\ Free2Call(t)
  /\ IF InMainThread(t) /\ ~called_run_app_to_completion_
       THEN /\ called_run_app_to_completion_' = TRUE
            /\ called_start_app_' = TRUE
            /\ start_pc' = IF called_start_app_ THEN InRunEventLoop ELSE 1
            /\ last' = [op |-> "RunAppToCompletion", thread |-> t,
                        threw |-> FALSE]
       ELSE /\ last' = [op |-> "RunAppToCompletion", thread |-> t,
                        threw |-> TRUE]
            /\ UNCHANGED <<called_start_app_, called_run_app_to_completion_,
                           start_pc>>
  /\ UNCHANGED <<started, app_running_, event_loop_, queue, pushed,
                 startRest>>

\* The main thread starts the app one way or the other while threads write
\* logs and the logic loop, once it is up, runs what is pushed to it.
StartNext ==
  \/ \E t \in Threads : StartApp(t)
  \/ \E t \in Threads : RunAppToCompletion(t)
  \/ OnMainThreadStartApp
  \/ StartAppSetRunning
  \/ StartAppPushApplyAppConfig
  \/ \E t \in Threads : V1CloudLog(t)
  \/ RunnableBegin
  \/ RunnableEnd

SpecStart == LoopSpecInit /\ [][StartNext]_vars

\* C25: StartApp takes effect at most once: a call after the first throws
\* and changes nothing, and each subsystem is started once, in order. The
\* app is running only when every subsystem's OnMainThreadStartApp has
\* returned, and Logic::ApplyAppConfig is pushed only with the app marked
\* running.
C25_StartAppOnceRunningLast ==
  /\ [](app_running_ => started = Subsystems)
  /\ []((\E i \in 1..Len(queue) : queue[i].mode = "native") => app_running_)
  /\ [][/\ called_start_app_ => called_start_app_'
        /\ app_running_ => app_running_'
        /\ started' # started =>
             /\ Len(started) < Len(Subsystems)
             /\ started' = Append(started, Subsystems[Len(started) + 1])
        /\ IF last'.op = "StartAppCall" /\ called_start_app_
             THEN /\ last'.threw
                  /\ UNCHANGED <<started, app_running_, queue, start_pc>>
             ELSE TRUE
        /\ IF last'.op = "push"
             THEN last'.mode = "native" => app_running_
             ELSE TRUE]_vars

\* The app runs, Logic::ApplyAppConfig waits in the queue, and a second
\* StartApp on the main thread has just been refused.
C25_Witness ==
  /\ last.op = "StartAppCall"
  /\ IF last.op = "StartAppCall" THEN last.threw /\ last.thread = "main"
                                 ELSE FALSE
  /\ app_running_
  /\ \E i \in 1..Len(queue) : queue[i].mode = "native"

\* -------------------------------------------------- console messages

MaxMsgs == 2

\* g_core->HeadlessMode(): the model is of a build with a console.
HeadlessMode == FALSE

consoleRest == <<ob_refcnt, owned, obj_, constructed, weakVars, timerVars,
                 importVars, lockVars, plusVars, lifeVars,
                 called_start_app_, app_running_, app_mode_, event_loop_,
                 executing, context_ref, ssc, unwinding,
              sessionVars,
              enumVars,
              commitVars>>

\* The runnable of a pushed print: the lambda [this, msg] that calls
\* console_->Print(msg).
PrintRunnable(t, msg) ==
  [mode |-> "print", from |-> t, n |-> pushed[t] + 1, wrap |-> FALSE,
   ctx |-> nullptr, use_fg |-> FALSE, sched |-> nullptr, py |-> FALSE,
   fg |-> GetForegroundContext(app_mode_), msg |-> msg]

\* Thread t is not in the middle of PushConsolePrintCall, nor, if it is
\* the logic thread, of a call or of OnScreenAndAssetsReady.
ConsoleFree(t) ==
  /\ print_at[t] = 0
  /\ IF t = "logic"
       THEN event_loop_ /\ executing["logic"] = NoCall /\ ready_pc = 0
       ELSE TRUE

\* BaseFeatureSet::PushConsolePrintCall(msg) on thread t, as far as the
\* decision: with the logic loop and the console there the print is pushed
\* to the loop; otherwise the thread goes on to keep the message.
PushConsolePrintCall(t) ==
  /\ ConsoleFree(t)
  /\ Len(submitted) < MaxMsgs
  /\ LET msg == Len(submitted) + 1
     IN  /\ submitted' = Append(submitted, msg)
         /\ IF HeadlessMode
              THEN UNCHANGED <<queue, pushed, print_at>>
              ELSE IF event_loop_ /\ console_
                THEN /\ Enqueue(t, PrintRunnable(t, msg))
                     /\ UNCHANGED print_at
                ELSE /\ print_at' = [print_at EXCEPT ![t] = msg]
                     /\ UNCHANGED <<queue, pushed>>
         /\ last' = [op |-> "PushConsolePrintCall", thread |-> t, msg |-> msg]
  /\ UNCHANGED <<console_, console_startup_messages_, printed, ready_pc,
                 begun, finished, consoleRest>>

\* PushConsolePrintCall, its last line: console_startup_messages_ += msg.
KeepMessage(t) ==
  /\ print_at[t] # 0
  /\ console_startup_messages_' = Append(console_startup_messages_,
                                         print_at[t])
  /\ print_at' = [print_at EXCEPT ![t] = 0]
  /\ last' = [op |-> "KeepMessage", thread |-> t]
  /\ UNCHANGED <<console_, printed, ready_pc, submitted, queue, pushed,
                 begun, finished, consoleRest>>

\* The logic loop runs a pushed print: console_->Print(msg).
RunConsolePrint ==
  /\ ConsoleFree("logic")
  /\ queue # <<>>
  /\ Head(queue).mode = "print"
  /\ printed' = Append(printed, Head(queue).msg)
  /\ queue' = Tail(queue)
  /\ begun' = [begun EXCEPT ![Head(queue).from] = @ + 1]
  /\ finished' = [finished EXCEPT ![Head(queue).from] = @ + 1]
  /\ last' = [op |-> "Print", thread |-> "logic", msg |-> Head(queue).msg]
  /\ UNCHANGED <<console_, console_startup_messages_, print_at, ready_pc,
                 submitted, pushed, consoleRest>>

\* BaseFeatureSet::OnScreenAndAssetsReady on the logic thread, statement by
\* statement: console_ = new Console(); the kept messages are printed; the
\* kept messages are cleared.
OnScreenAndAssetsReady ==
  /\ event_loop_
  /\ executing["logic"] = NoCall
  /\ print_at["logic"] = 0
  /\ IF ready_pc = 0
       THEN /\ ~console_
            /\ console_' = TRUE
            /\ ready_pc' = IF console_startup_messages_ = <<>> THEN 3 ELSE 1
            /\ UNCHANGED <<printed, console_startup_messages_>>
       ELSE IF ready_pc = 1
         THEN /\ printed' = printed \o console_startup_messages_
              /\ ready_pc' = 2
              /\ UNCHANGED <<console_, console_startup_messages_>>
         ELSE /\ ready_pc = 2
              /\ console_startup_messages_' = <<>>
              /\ ready_pc' = 3
              /\ UNCHANGED <<console_, printed>>
  /\ last' = [op |-> "OnScreenAndAssetsReady", thread |-> "logic"]
  /\ UNCHANGED <<print_at, submitted, queue, pushed, begun, finished,
                 consoleRest>>

\* OnScreenAndAssetsReady returns.
OnScreenAndAssetsReadyReturn ==
  /\ ready_pc = 3
  /\ ready_pc' = 0
  /\ last' = [op |-> "ready", thread |-> "logic"]
  /\ UNCHANGED <<console_, console_startup_messages_, printed, print_at,
                 submitted, queue, pushed, begun, finished, consoleRest>>

\* The app starts, threads print to the console, and the logic thread
\* creates the console when screen and assets are ready.
ConsoleNext ==
  \/ print_at["main"] = 0 /\ StartAppBegin
  \/ print_at["main"] = 0 /\ StartAppEnd
  \/ \E t \in Threads : PushConsolePrintCall(t)
  \/ \E t \in Threads : KeepMessage(t)
  \/ RunConsolePrint
  \/ OnScreenAndAssetsReady
  \/ OnScreenAndAssetsReadyReturn
  \/ ready_pc = 0 /\ queue # <<>> /\ Head(queue).mode # "print"
       /\ RunnableBegin
  \/ RunnableEnd

SpecConsole == LoopSpecInit /\ [][ConsoleNext]_vars

\* The console is there and nothing about a message is under way.
ConsoleQuiet ==
  /\ console_
  /\ ready_pc = 0
  /\ \A t \in Threads : print_at[t] = 0
  /\ \A i \in 1..Len(queue) : queue[i].mode # "print"

\* C26: every message given to PushConsolePrintCall is printed on the
\* console once, in the order of submission: at no time is a message
\* printed twice or out of order, and once the console is there and no
\* print is under way the messages printed are the messages submitted.
C26_EveryMessagePrintedOnce ==
  /\ \A i, j \in 1..Len(printed) : i < j => printed[i] < printed[j]
  /\ ConsoleQuiet => printed = submitted

\* ------------------------------------- deallocation of Widget handles

\* The deletes of the WeakRef of h that wait in the logic loop.
PendingDeletes(h) ==
  {i \in 1..Len(queue) : queue[i].mode = "delete" /\ queue[i].w = h}

\* C27: the weak reference of a Widget handle is destroyed once and on the
\* logic thread only: a WeakRef whose handle is gone has exactly one delete
\* waiting for it in the logic loop and every other has none; a WeakRef
\* ceases to exist only in a step of the logic thread; a deallocation on
\* another thread leaves the WeakRef as it was and pushes its deletion; and
\* from then on no thread is in a method that reads it.
C27_WeakRefDeletedOnceOnLogicThread ==
  /\ [](\A h \in PyWidgets :
          /\ Cardinality(PendingDeletes(h)) =
               IF widget_[h].allocated /\ ~py_widget[h] THEN 1 ELSE 0
          /\ \A t \in Threads :
               IF get_[t] = NoGet THEN TRUE
               ELSE get_[t].h = h => py_widget[h])
  /\ [][/\ \A h \in PyWidgets :
             (widget_[h].allocated /\ ~widget_'[h].allocated) =>
               /\ last'.op \in {"tp_dealloc", "delete"}
               /\ last'.thread = "logic"
               /\ last'.h = h
        /\ last'.op = "tp_dealloc" =>
             IF last'.thread = "logic"
               THEN ~last'.deferred /\ queue' = queue
               ELSE /\ last'.deferred
                    /\ widget_' = widget_
                    /\ queue' = Append(queue, queue'[Len(queue')])
                    /\ queue'[Len(queue')].mode = "delete"
                    /\ queue'[Len(queue')].w = last'.h
       ]_vars

\* The logic loop has deleted the WeakRef of a handle that was deallocated
\* on the main thread, while the other handle is in use.
C27_Witness ==
  /\ last.op = "delete"
  /\ IF last.op = "delete"
       THEN /\ ~widget_[last.h].allocated
            /\ \E h \in PyWidgets \ {last.h} : py_widget[h]
       ELSE FALSE
  /\ finished["main"] >= 2

\* ---------------------------------------------------------- sessions

\* The addresses a Session can live at.
SessionPtrs == {1, 2}

\* The cap of session_count in a run of the model.
MaxSessionCount == 3

sessionRest == <<ob_refcnt, owned, obj_, constructed, weakVars, timerVars,
                 importVars, lockVars, plusVars, lifeVars, consoleVars,
                 loopVars,
              enumVars,
              commitVars>>

\* SceneV1AppMode::GetActiveOrThrow: the active scene-v1 app mode, or an
\* exception when the active app mode is another one.
GetActiveOrThrow == [threw |-> ~scene_v1_active]

\* The app changes to a scene-v1 app mode or away from one.
SetSceneV1AppModeActive(active) ==
  /\ scene_v1_active # active
  /\ scene_v1_active' = active
  /\ last' = [op |-> "SetSceneV1AppModeActive", active |-> active]
  /\ UNCHANGED <<session_count, sessions, foreground_session_, sessionRest>>

\* new Session() at address s: Session::Session. When the constructor
\* throws, the storage is released and no destructor of Session runs.
NewSession(s) ==
  /\ s \notin sessions
  /\ session_count < MaxSessionCount
  /\ session_count' = session_count + 1
  /\ LET appmode == GetActiveOrThrow
     IN  IF appmode.threw
           THEN UNCHANGED <<sessions, foreground_session_>>
           ELSE /\ sessions' = sessions \cup {s}
                /\ foreground_session_' = s
  /\ last' = [op |-> "Session", s |-> s, threw |-> GetActiveOrThrow.threw]
  /\ UNCHANGED <<scene_v1_active, sessionRest>>

\* delete of the Session at s: Session::~Session.
DeleteSession(s) ==
  /\ s \in sessions
  /\ session_count' = session_count - 1
  /\ sessions' = sessions \ {s}
  /\ last' = [op |-> "~Session", s |-> s]
  /\ UNCHANGED <<foreground_session_, scene_v1_active, sessionRest>>

\* Sessions are made and destroyed while the app starts and changes its
\* app mode.
SessionNext ==
  \/ StartAppBegin
  \/ StartAppEnd
  \/ RunnableBegin
  \/ RunnableEnd
  \/ \E active \in BOOLEAN : SetSceneV1AppModeActive(active)
  \/ \E s \in SessionPtrs : NewSession(s)
  \/ \E s \in SessionPtrs : DeleteSession(s)

SpecSession == LoopSpecInit /\ [][SessionNext]_vars

\* C28: whatever Sessions were constructed and destroyed, also when a
\* construction failed for want of an active scene-v1 app mode,
\* g_core->session_count is the number of Sessions that exist.
C28_SessionCountIsLiveSessions == session_count = Cardinality(sessions)

\* ------------------------------------------------------ enum values

\* The least and the greatest integer an object has as its value.
MinValue == -1
MaxValue == 4

\* The enum types GetPyEnum is instantiated for in the model, and T::kLast
\* of each: the number of its members.
EnumTypes == {"TimeType", "InputType"}
kLast == [TimeType |-> 2, InputType |-> 3]

\* What PyObject_GetAttrString(obj, "value") gives: nothing (the attribute
\* is missing), an object that is no int, or an int.
PyValues ==
  {[kind |-> "none", v |-> 0], [kind |-> "str", v |-> 0]}
    \cup {[kind |-> "int", v |-> n] : n \in MinValue..MaxValue}

\* The objects handed to GetPyEnum: what PyObject_IsInstance(obj, class)
\* returns for them (1, 0, or -1 when the check itself raised an error),
\* and their value.
PyEnumObjs == [isinstance : {-1, 0, 1}, value : PyValues]

\* IsPyEnum<T>(enum_class_id, obj)
IsPyEnum(T, obj) == obj.isinstance # 0

\* GetPyEnum<T>(enum_class_id, obj): the member returned, or the kind of
\* the exception thrown.
GetPyEnum(T, obj) ==
  IF obj.isinstance = 0
    THEN [threw |-> "kType", member |-> 0]
  ELSE IF obj.value.kind # "int"
    THEN [threw |-> "kType", member |-> 0]
  ELSE IF obj.value.v < 0 \/ obj.value.v >= kLast[T]
    THEN [threw |-> "kValue", member |-> 0]
  ELSE [threw |-> "none", member |-> obj.value.v]

enumRest == <<ob_refcnt, owned, obj_, constructed, weakVars, timerVars,
              importVars, lockVars, plusVars, lifeVars, consoleVars,
              sessionVars, loopVars,
              commitVars>>

\* Script code hands obj to a function that takes an enum of type T.
PassObj(T, obj) ==
  /\ enum_pc \in {"idle", "done"}
  /\ enum_pc' = "called"
  /\ enum_T' = T
  /\ enum_obj' = obj
  /\ enum_result' = [op |-> "-"]
  /\ last' = [op |-> "PassObj"]
  /\ UNCHANGED enumRest

\* BasePython::IsPyEnum_<T>(obj)
CallIsPyEnum ==
  /\ enum_pc = "called"
  /\ enum_pc' = "done"
  /\ enum_result' = [op |-> "IsPyEnum", is |-> IsPyEnum(enum_T, enum_obj)]
  /\ last' = [op |-> "IsPyEnum"]
  /\ UNCHANGED <<enum_T, enum_obj, enumRest>>

\* BasePython::GetPyEnum_<T>(obj)
CallGetPyEnum ==
  /\ enum_pc = "called"
  /\ enum_pc' = "done"
  /\ enum_result' = [op |-> "GetPyEnum", r |-> GetPyEnum(enum_T, enum_obj)]
  /\ last' = [op |-> "GetPyEnum"]
  /\ UNCHANGED <<enum_T, enum_obj, enumRest>>

EnumNext ==
  \/ \E T \in EnumTypes, obj \in PyEnumObjs : PassObj(T, obj)
  \/ CallIsPyEnum
  \/ CallGetPyEnum

SpecEnum == LoopSpecInit /\ [][EnumNext]_vars

\* obj is an instance of the enum class of T with an integer value v,
\* 0 <= v < kLast.
ValidEnum(T, obj) ==
  /\ obj.isinstance = 1
  /\ obj.value.kind = "int"
  /\ obj.value.v >= 0
  /\ obj.value.v < kLast[T]

\* C29: GetPyEnum returns a member only for an instance of the expected
\* enum class with an integer value v, 0 <= v < kLast, and then the member
\* with value v; for every other object it throws: a type error for an
\* object of another class or with a value that is no integer, a value
\* error for a value out of range, and an error also when the instance
\* check itself reported an error.
C29_GetPyEnumOnlyForValidMembers ==
  enum_result.op = "GetPyEnum" =>
    LET r == enum_result.r
    IN  IF ValidEnum(enum_T, enum_obj)
          THEN r.threw = "none" /\ r.member = enum_obj.value.v
          ELSE /\ r.threw # "none"
               /\ enum_obj.isinstance = 0 => r.threw = "kType"
               /\ (enum_obj.isinstance = 1 /\ enum_obj.value.kind # "int")
                    => r.threw = "kType"
               /\ (enum_obj.isinstance = 1 /\ enum_obj.value.kind = "int")
                    => r.threw = "kValue"

\* -------------------------------------------------- commit_config

\* Calls of commit_config in a run of the model.
MaxCommits == 3

\* The config strings of the model.
MaxContent == 2
Configs == 1..MaxContent

\* What a path can hold: no file, a file whose writing was not completed,
\* or a file with a whole config string.
NoFile == 0
Incomplete == -1
Contents == Configs \cup {NoFile, Incomplete}

\* The config file, the temp file and the backup.
Paths == {"path", "path_temp", "path_prev"}

\* CorePlatform::FilePathExists
FilePathExists(fs, p) == fs[p] # NoFile

\* CorePlatform::Remove when it succeeds.
Remove(fs, p) == [fs EXCEPT ![p] = NoFile]

\* CorePlatform::Rename(oldname, newname). It removes a file at newname
\* and moves oldname there; when it fails the file at oldname stays, and
\* the one at newname stays or is already removed.
Rename(fs, oldname, newname, outcome) ==
  IF outcome = "ok"
    THEN [fs EXCEPT ![newname] = fs[oldname], ![oldname] = NoFile]
  ELSE IF outcome = "failed after remove"
    THEN [fs EXCEPT ![newname] = NoFile]
  ELSE fs

RenameOutcomes == {"ok", "failed", "failed after remove"}

commitRest == <<ob_refcnt, owned, obj_, constructed, weakVars, timerVars,
                importVars, lockVars, plusVars, lifeVars, consoleVars,
                sessionVars, enumVars, loopVars>>

\* PyCommitConfig throws: the call is over.
CommitThrow(step) ==
  /\ commit_pc' = "idle"
  /\ last' = [op |-> "commit_config", threw |-> TRUE, step |-> step]

\* Script code calls commit_config(config): the argument is taken, and the
\* three paths are made. An argument that is no string throws.
PyCommitConfig(config, is_str) ==
  /\ commit_pc = "idle"
  /\ commits < MaxCommits
  /\ commits' = commits + 1
  /\ before' = files
  /\ \E w \in {"yes", "no"} :
       ostype_windows' = IF ostype_windows = "unknown" THEN w
                         ELSE ostype_windows
  /\ IF is_str
       THEN /\ final_str' = config
            /\ commit_pc' = "fopen"
            /\ last' = [op |-> "PyCommitConfig"]
       ELSE /\ UNCHANGED final_str
            /\ CommitThrow("arg")
  /\ UNCHANGED <<files, commitRest>>

\* FOpen(path_temp, "wb"): the temp file is made, or cut to nothing.
FOpenTemp(ok) ==
  /\ commit_pc = "fopen"
  /\ IF ok
       THEN /\ files' = [files EXCEPT !["path_temp"] = Incomplete]
            /\ commit_pc' = "fwrite"
            /\ last' = [op |-> "FOpen"]
       ELSE /\ UNCHANGED files
            /\ CommitThrow("fopen")
  /\ UNCHANGED <<final_str, before, ostype_windows, commits, commitRest>>

\* fwrite of final_str to the temp file, and fclose.
FWriteTemp(ok) ==
  /\ commit_pc = "fwrite"
  /\ IF ok
       THEN /\ files' = [files EXCEPT !["path_temp"] = final_str]
            /\ commit_pc' = IF FilePathExists(files, "path")
                              THEN IF ostype_windows = "yes"
                                      /\ FilePathExists(files, "path_prev")
                                     THEN "remove"
                                     ELSE "backup"
                              ELSE "move"
            /\ last' = [op |-> "fwrite"]
       ELSE /\ UNCHANGED files
            /\ CommitThrow("fwrite")
  /\ UNCHANGED <<final_str, before, ostype_windows, commits, commitRest>>

\* On Windows: Remove(path_prev) before the backup.
RemovePrev(ok) ==
  /\ commit_pc = "remove"
  /\ IF ok
       THEN /\ files' = Remove(files, "path_prev")
            /\ commit_pc' = "backup"
            /\ last' = [op |-> "Remove"]
       ELSE /\ UNCHANGED files
            /\ CommitThrow("remove")
  /\ UNCHANGED <<final_str, before, ostype_windows, commits, commitRest>>

\* A commit_config that makes no backup of the existing config.
BackupConfigSkipped(outcome) ==
  /\ commit_pc = "backup"
  /\ commit_pc' = "move"
  /\ last' = [op |-> "Rename"]
  /\ UNCHANGED <<files, final_str, before, ostype_windows, commits,
                 commitRest>>

\* Rename(path, path_prev): the existing config becomes the backup.
BackupConfig(outcome) ==
  /\ commit_pc = "backup"
  /\ files' = Rename(files, "path", "path_prev", outcome)
  /\ IF outcome = "ok"
       THEN /\ commit_pc' = "move"
            /\ last' = [op |-> "Rename"]
       ELSE CommitThrow("backup")
  /\ UNCHANGED <<final_str, before, ostype_windows, commits, commitRest>>

\* Rename(path_temp, path): the temp file becomes the config, and
\* commit_config returns None.
MoveTempIntoPlace(outcome) ==
  /\ commit_pc = "move"
  /\ files' = Rename(files, "path_temp", "path", outcome)
  /\ IF outcome = "ok"
       THEN /\ commit_pc' = "idle"
            /\ last' = [op |-> "commit_config", threw |-> FALSE,
                        step |-> "-"]
       ELSE CommitThrow("move")
  /\ UNCHANGED <<final_str, before, ostype_windows, commits, commitRest>>

CommitNext ==
  \/ \E config \in Configs, is_str \in BOOLEAN : PyCommitConfig(config, is_str)
  \/ \E ok \in BOOLEAN : FOpenTemp(ok)
  \/ \E ok \in BOOLEAN : FWriteTemp(ok)
  \/ \E ok \in BOOLEAN : RemovePrev(ok)
  \/ \E outcome \in RenameOutcomes : BackupConfig(outcome)
  \/ \E outcome \in RenameOutcomes : MoveTempIntoPlace(outcome)

SpecCommit == LoopSpecInit /\ [][CommitNext]_vars

\* commit_config has just ended.
CommitEnded == last.op = "commit_config"

====
